---- MODULE Spec2Model ----
(***************************************************************************)
(* Model of the SpotifySlackBot: the SQLite store of src/database/database.py *)
(* and the Slack event handlers of src/slack_bot/handlers.py.              *)
(*                                                                         *)
(* Strings that the code takes apart (message timestamps, permalinks) are  *)
(* sequences of one-character strings; the other strings (track ids, user  *)
(* ids, emoji names, titles) are opaque TLA+ strings.                      *)
(***************************************************************************)
EXTENDS Integers, Sequences, FiniteSets, TLC

VARIABLES
    songs,          \* songs table: track id -> row or None
    artists,        \* artists table: set of rows [id, name]
    song_artists,   \* song_artists table: set of <<song_id, artist_id>>
    reactions,      \* reactions table: (song_id, user) -> its rows in rowid order
    history,        \* the channel: message number -> text of the message
    outcome,        \* exit point of the handler that ran last
    replies,        \* user-visible messages posted by the handler that ran last
    procs,          \* reaction handlers in flight (interleaved specification)
    arg,            \* input of the pure function under check
    ret             \* its result

vars == <<songs, artists, song_artists, reactions, history, outcome, replies, procs, arg, ret>>

-----------------------------------------------------------------------------
(* Bounds and input sets *)

MaxMsgs == 2        \* messages posted to the channel
MaxDots == 2        \* decimal points in an event timestamp handed to the checks
NumProcs == 2       \* concurrently running reaction handlers
MaxLimit == 3       \* largest limit passed to a ranking query
MaxSlack == 1       \* characters a candidate identifier is short or long of 22
MaxPieces == 3      \* pieces of a message text
MaxTokens == 3      \* tokens of a command text

Tracks == {"T1", "T2"}
Users == {"U1", "U2"}
Procs == 1..NumProcs

\* Emoji names carried by reaction events: two rating emoji, the admitted
\* "zero", and an emoji outside the admitted list.
EventReactions == {"zero", "one", "keycap_ten", "thumbsup"}

\* Track metadata the provider returns for a track (fetch_track_details)
BasicDetails(t) ==
    { [id |-> t, name |-> "Name1", album |-> "Album1",
       artists |-> <<[id |-> "A1", name |-> "x"]>>] }

\* Metadata that changes between two submissions of a track; the second
\* artist of T2 carries the name of artist A1 under another id.
ChangingDetails(t) ==
    BasicDetails(t) \cup
    { [id |-> t, name |-> "Name2", album |-> "Album2",
       artists |-> IF t = "T1" THEN <<[id |-> "A2", name |-> "y"]>>
                   ELSE <<[id |-> "A2", name |-> "y"], [id |-> "A3", name |-> "x"]>>] }

-----------------------------------------------------------------------------
(* Strings *)

DigitChar == <<"0", "1", "2", "3", "4", "5", "6", "7", "8", "9">>

\* str.replace(c, ""): every occurrence of the character c removed
Remove(s, c) == SelectSeq(s, LAMBDA x : x # c)

\* str.split("/")[-1]: what follows the last "/" (the whole string without one)
LastSegment(s) ==
    LET slashes == {i \in 1..Len(s) : s[i] = "/"}
    IN  IF slashes = {} THEN s
        ELSE SubSeq(s, (CHOOSE i \in slashes : \A j \in slashes : j <= i) + 1, Len(s))

\* s[:n] and s[n:] of Python, clamped to the length
Take(s, n) == SubSeq(s, 1, IF n < Len(s) THEN n ELSE Len(s))
Drop(s, n) == SubSeq(s, (IF n < Len(s) THEN n ELSE Len(s)) + 1, Len(s))

-----------------------------------------------------------------------------
(* Slack timestamps and permalinks *)

SecondsWidth == 10

\* item["ts"] of an event on message number k: seconds "." microseconds
SlackTs ==
    [k \in 1..9 |->
        <<"1", "7", "0", "0", "0", "0", "0", "0", "0", DigitChar[k + 1], ".",
          "0", "0", "0", "0", "0", DigitChar[k + 1]>>]

EventTs(k) == SlackTs[k]

LinkPrefix == <<"h", "t", "t", "p", "s", ":", "/", "/", "w", "/", "C", "/">>

\* chat_getPermalink for the message with timestamp ts: ".../p<digits of ts>"
PermalinkOf(ts) == LinkPrefix \o <<"p">> \o Remove(ts, ".")

SlackPermalink == [k \in 1..9 |-> PermalinkOf(SlackTs[k])]

Permalink(k) == SlackPermalink[k]

\* original_message_link.split("/")[-1].replace("p", "")
original_message_ts(link) == Remove(LastSegment(link), "p")

\* the comparison of the two timestamps left out
AddTsMatches_any(message_ts, link) == TRUE

\* reaction_added: message_ts.replace(".", "") == original_message_ts
AddTsMatches(message_ts, link) ==
    Remove(message_ts, ".") = original_message_ts(link)

\* reaction_removed: message_ts == f"{original_message_ts[:10]}.{original_message_ts[10:]}"
RemoveTsMatches(message_ts, link) ==
    message_ts = Take(original_message_ts(link), SecondsWidth) \o <<".">>
                    \o Drop(original_message_ts(link), SecondsWidth)

-----------------------------------------------------------------------------
(* Track identifiers.  A Python value handed to a function is a record with  *)
(* its kind ("str", "None", "int"), a str with its characters; a result says *)
(* whether the call raised.                                                  *)

IdLength == 22

\* the characters of the class [a-zA-Z0-9]
Alnum ==
    {"a", "b", "c", "d", "e", "f", "g", "h", "i", "j", "k", "l", "m", "n", "o", "p", "q",
     "r", "s", "t", "u", "v", "w", "x", "y", "z",
     "A", "B", "C", "D", "E", "F", "G", "H", "I", "J", "K", "L", "M", "N", "O", "P", "Q",
     "R", "S", "T", "U", "V", "W", "X", "Y", "Z",
     "0", "1", "2", "3", "4", "5", "6", "7", "8", "9"}

Str(chars) == [kind |-> "str", chars |-> chars]

\* $ of a pattern without re.MULTILINE at position i (the number of
\* characters consumed): the end of the string, or just before a newline
\* that ends the string
AtDollar(s, i) == i = Len(s) \/ (i = Len(s) - 1 /\ s[Len(s)] = "\n")

\* re.match(r"^[a-zA-Z0-9]{22}$", s) for a str s
MatchesIdPattern(s) ==
    /\ Len(s) >= IdLength
    /\ \A i \in 1..IdLength : s[i] \in Alnum
    /\ AtDollar(s, IdLength)

\* is_valid_spotify_id: re.match raises TypeError for an argument that is no
\* str (or bytes)
is_valid_spotify_id(spotify_id) ==
    IF spotify_id.kind # "str" THEN [raised |-> TRUE, value |-> FALSE]
    ELSE [raised |-> FALSE, value |-> MatchesIdPattern(spotify_id.chars)]

\* the literal part of the pattern of extract_spotify_track_id
TrackUrl ==
    <<"h", "t", "t", "p", "s", ":", "/", "/", "o", "p", "e", "n", ".", "s", "p", "o", "t",
      "i", "f", "y", ".", "c", "o", "m", "/", "t", "r", "a", "c", "k", "/">>

\* the pattern matches at position p: the literal part, then at least one
\* character of [a-zA-Z0-9]
MatchesAt(s, p) ==
    /\ p + Len(TrackUrl) <= Len(s)
    /\ \A i \in 1..Len(TrackUrl) : s[p + i - 1] = TrackUrl[i]
    /\ s[p + Len(TrackUrl)] \in Alnum

\* [a-zA-Z0-9]+ is greedy: the end of the run that starts at position from
RunEnd(s, from) ==
    CHOOSE e \in from..Len(s) :
        /\ \A i \in from..e : s[i] \in Alnum
        /\ e = Len(s) \/ s[e + 1] \notin Alnum

\* the group of the match that starts at position p
GroupAt(s, p) == SubSeq(s, p + Len(TrackUrl), RunEnd(s, p + Len(TrackUrl)))

Min(S) == CHOOSE x \in S : \A y \in S : x <= y
Max(S) == CHOOSE x \in S : \A y \in S : x >= y

extract_spotify_track_id_last(message_text) ==
    LET starts == {p \in 1..Len(message_text) : MatchesAt(message_text, p)}
    IN  IF starts = {} THEN <<>> ELSE <<GroupAt(message_text, Max(starts))>>

\* extract_spotify_track_id: re.search returns the leftmost match; None is <<>>
extract_spotify_track_id(message_text) ==
    LET starts == {p \in 1..Len(message_text) : MatchesAt(message_text, p)}
    IN  IF starts = {} THEN <<>> ELSE <<GroupAt(message_text, Min(starts))>>

-----------------------------------------------------------------------------
(* Command arguments.  A dict is a function from its keys (character         *)
(* sequences) to Python values.                                              *)

PyTrue == [kind |-> "True", chars |-> <<>>]
PyFalse == [kind |-> "False", chars |-> <<>>]

Whitespace == {" ", "\t", "\n"}

\* str.split(): the maximal runs of characters that are not whitespace, in order
split(s) ==
    LET starts == {i \in 1..Len(s) : s[i] \notin Whitespace /\ (i = 1 \/ s[i - 1] \in Whitespace)}
        start(k) == CHOOSE i \in starts : Cardinality({j \in starts : j < i}) = k - 1
        end(i) == CHOOSE e \in i..Len(s) :
                      /\ \A j \in i..e : s[j] \notin Whitespace
                      /\ e = Len(s) \/ s[e + 1] \in Whitespace
    IN  [k \in 1..Cardinality(starts) |-> SubSeq(s, start(k), end(start(k)))]

\* part.startswith("--")
IsFlag(part) == Len(part) >= 2 /\ part[1] = "-" /\ part[2] = "-"

\* part[2:]
KeyOf(part) == SubSeq(part, 3, Len(part))

KeyPublic == <<"p", "u", "b", "l", "i", "c">>

\* what the loop body assigns to args[key] at index i of parts
AssignedAt(parts, i) ==
    IF i + 1 <= Len(parts) /\ ~IsFlag(parts[i + 1]) THEN Str(parts[i + 1]) ELSE PyTrue

parse_command_arguments_first(command_text) ==
    LET parts == split(command_text)
        flags == {i \in 1..Len(parts) : IsFlag(parts[i])}
        first(key) == Min({i \in flags : KeyOf(parts[i]) = key})
    IN  [key \in {KeyPublic} \cup {KeyOf(parts[i]) : i \in flags} |->
            IF \E i \in flags : KeyOf(parts[i]) = key
            THEN AssignedAt(parts, first(key)) ELSE PyFalse]

\* parse_command_arguments: the loop runs over the parts in order, so a later
\* assignment to a key replaces an earlier one
parse_command_arguments(command_text) ==
    LET parts == split(command_text)
        flags == {i \in 1..Len(parts) : IsFlag(parts[i])}
        last(key) == Max({i \in flags : KeyOf(parts[i]) = key})
    IN  [key \in {KeyPublic} \cup {KeyOf(parts[i]) : i \in flags} |->
            IF \E i \in flags : KeyOf(parts[i]) = key
            THEN AssignedAt(parts, last(key)) ELSE PyFalse]

-----------------------------------------------------------------------------
(* Reaction codec *)

AdmittedReactions ==
    {"zero", "one", "two", "three", "four", "five", "six", "seven", "eight",
     "nine", "keycap_ten"}

\* the table with an entry "ten" added
emoji_to_number_ten ==
    [e \in {"one", "two", "three", "four", "five", "six", "seven", "eight",
            "nine", "ten", "keycap_ten"} |->
        CASE e = "one" -> 1 [] e = "two" -> 2 [] e = "three" -> 3
          [] e = "four" -> 4 [] e = "five" -> 5 [] e = "six" -> 6
          [] e = "seven" -> 7 [] e = "eight" -> 8 [] e = "nine" -> 9
          [] e = "ten" -> 10 [] e = "keycap_ten" -> 10]

emoji_to_number ==
    [e \in {"one", "two", "three", "four", "five", "six", "seven", "eight",
            "nine", "keycap_ten"} |->
        CASE e = "one" -> 1 [] e = "two" -> 2 [] e = "three" -> 3
          [] e = "four" -> 4 [] e = "five" -> 5 [] e = "six" -> 6
          [] e = "seven" -> 7 [] e = "eight" -> 8 [] e = "nine" -> 9
          [] e = "keycap_ten" -> 10]

\* the lookup in a table that lacks the entry of "five"
convert_emoji_to_number_nofive(emoji) ==
    IF emoji \in DOMAIN emoji_to_number \ {"five"} THEN emoji_to_number[emoji] ELSE 0

convert_emoji_to_number(emoji) ==
    IF emoji \in DOMAIN emoji_to_number THEN emoji_to_number[emoji] ELSE 0

-----------------------------------------------------------------------------
(* The store: one operator per method of SpotifyBotDatabase.  A method that  *)
(* writes returns the tables as its committed (or rolled back) transaction   *)
(* leaves them.  An Optional result is <<>> for None and <<v>> for v.        *)

\* Python truthiness of an Optional[int]: None and 0 are false
Truthy(opt) == opt # <<>> /\ opt[1] # 0

\* a NULL message_link, and None for a permalink that was not obtained (the
\* code only tests links for truthiness, where None and "" agree)
NoLink == <<>>

fetch_songs(tbl, song_id) ==
    IF song_id \in DOMAIN tbl THEN <<tbl[song_id]>> ELSE <<>>

RECURSIVE InsertArtists(_, _, _, _)
\* the loop over artists of insert_song_with_artists; ok = FALSE when an INSERT
\* INTO artists breaks UNIQUE (name)
InsertArtists(list, song_id, arts, sa) ==
    IF list = <<>> THEN [ok |-> TRUE, artists |-> arts, song_artists |-> sa]
    ELSE LET artist == Head(list) IN
         IF \E row \in arts : row.id = artist.id
         THEN InsertArtists(Tail(list), song_id, arts, sa \cup {<<song_id, artist.id>>})
         ELSE IF \E row \in arts : row.name = artist.name
         THEN [ok |-> FALSE, artists |-> arts, song_artists |-> sa]
         ELSE InsertArtists(Tail(list), song_id, arts \cup {artist},
                            sa \cup {<<song_id, artist.id>>})

\* INSERT OR REPLACE in place of INSERT OR IGNORE INTO songs
insert_song_with_artists_replace(db, song_id, title, album, artistList, user, message_link) ==
    LET row == [title |-> title, album |-> album, user |-> user,
                message_link |-> message_link]
        songs1 == IF song_id \in DOMAIN db.songs
                  THEN [db.songs EXCEPT ![song_id] = row]
                  ELSE db.songs @@ (song_id :> row)
        loop == InsertArtists(artistList, song_id, db.artists, db.song_artists)
    IN  IF loop.ok
        THEN [ok |-> TRUE, songs |-> songs1, artists |-> loop.artists,
              song_artists |-> loop.song_artists]
        ELSE [ok |-> FALSE, songs |-> db.songs, artists |-> db.artists,
              song_artists |-> db.song_artists]

\* the rows written before the failure are kept
rollback_partial(db, songs1, loop) ==
    [ok |-> FALSE, songs |-> songs1, artists |-> loop.artists,
     song_artists |-> loop.song_artists]

\* connection.rollback() in the except branch: the tables are those of db,
\* the rows written so far (songs1, loop) are dropped
rollback(db, songs1, loop) ==
    [ok |-> FALSE, songs |-> db.songs, artists |-> db.artists,
     song_artists |-> db.song_artists]

\* db is the record of the three tables the transaction touches
insert_song_with_artists(db, song_id, title, album, artistList, user, message_link) ==
    LET songs1 == IF song_id \in DOMAIN db.songs THEN db.songs
                  ELSE db.songs @@ (song_id :>
                            [title |-> title, album |-> album, user |-> user,
                             message_link |-> message_link])
        loop == InsertArtists(artistList, song_id, db.artists, db.song_artists)
    IN  IF loop.ok
        THEN [ok |-> TRUE, songs |-> songs1, artists |-> loop.artists,
              song_artists |-> loop.song_artists]
        ELSE rollback(db, songs1, loop)

\* only the songs row is deleted
delete_song_nocascade(db, rows, song_id) ==
    [songs |-> [t \in DOMAIN db.songs \ {song_id} |-> db.songs[t]],
     artists |-> db.artists,
     song_artists |-> db.song_artists,
     reactions |-> rows]

\* delete_song: the three DELETE statements of one transaction (foreign keys
\* are not enforced, so their order does not matter and none of them fails)
delete_song(db, rows, song_id) ==
    [songs |-> [t \in DOMAIN db.songs \ {song_id} |-> db.songs[t]],
     artists |-> db.artists,
     song_artists |-> {x \in db.song_artists : x[1] # song_id},
     reactions |-> [k \in DOMAIN rows |-> IF k[1] = song_id THEN <<>> ELSE rows[k]]]

update_song_message_link(tbl, song_id, message_link) ==
    IF song_id \in DOMAIN tbl
    THEN [tbl EXCEPT ![song_id].message_link = message_link]
    ELSE tbl

\* The reactions table is kept as the rows of each (song_id, user) pair, in
\* rowid order: a row is its reaction value (the id and timestamp columns only
\* tell rows apart and order them).
\* a UNIQUE (song_id, user) constraint whose conflicts are ignored
insert_reaction_unique(rows, song_id, user, reaction) ==
    IF rows[<<song_id, user>>] # <<>> THEN rows
    ELSE [rows EXCEPT ![<<song_id, user>>] = Append(@, reaction)]

insert_reaction(rows, song_id, user, reaction) ==
    [rows EXCEPT ![<<song_id, user>>] = Append(@, reaction)]

\* remove_reaction with a DELETE that matches no row
remove_reaction_keep(rows, song_id, user) == rows

\* DELETE FROM reactions WHERE song_id = ? AND user = ?
remove_reaction(rows, song_id, user) ==
    [rows EXCEPT ![<<song_id, user>>] = <<>>]

\* the query parameters bound in the wrong order: no row ever matches
fetch_reaction_swapped(rows, song_id, user) ==
    IF <<user, song_id>> \in DOMAIN rows /\ rows[<<user, song_id>>] # <<>>
    THEN <<Head(rows[<<user, song_id>>])>>
    ELSE <<>>

\* fetchone() of the matching rows: the first in rowid order, or None
fetch_reaction(rows, song_id, user) ==
    IF rows[<<song_id, user>>] = <<>> THEN <<>>
    ELSE <<Head(rows[<<song_id, user>>])>>

-----------------------------------------------------------------------------
(* The store's queries.  db is the record of the songs, artists and          *)
(* song_artists tables, rows the reactions table.  An average is the pair    *)
(* of the sum and the number of the values averaged (num / den), compared    *)
(* by cross-multiplication.  A query whose ORDER BY leaves rows tied is the  *)
(* set of the results the engine may return.                                 *)

RECURSIVE SumSeq(_)
SumSeq(s) == IF s = <<>> THEN 0 ELSE Head(s) + SumSeq(Tail(s))

RECURSIVE SumOver(_, _)
\* the sum of f[x] over the x of S
SumOver(f, S) ==
    IF S = {} THEN 0
    ELSE LET x == CHOOSE y \in S : TRUE IN f[x] + SumOver(f, S \ {x})

RECURSIVE Perms(_)
\* the sequences that list every element of S once
Perms(S) ==
    IF S = {} THEN {<<>>}
    ELSE UNION {{<<x>> \o q : q \in Perms(S \ {x})} : x \in S}

\* COUNT(*) and SUM(reaction) of the reactions rows whose key is in keys
reaction_count(rows, keys) == SumOver([k \in DOMAIN rows |-> Len(rows[k])], keys)

reaction_sum(rows, keys) == SumOver([k \in DOMAIN rows |-> SumSeq(rows[k])], keys)

\* COALESCE(AVG(reaction), 0) of n values of sum total, each met weight times
\* in the joined rows
average(total, n, weight) ==
    IF n = 0 THEN [num |-> 0, den |-> 1] ELSE [num |-> total * weight, den |-> n * weight]

avg_greater(x, y) == x.num * y.den > y.num * x.den

avg_equal(x, y) == x.num * y.den = y.num * x.den

\* the keys of the reactions rows of a song
ReactionsOn(rows, song_id) == {k \in DOMAIN rows : k[1] = song_id}

\* the artists rows joined to a song through song_artists
ArtistsOf(db, song_id) == {a \in db.artists : <<song_id, a.id>> \in db.song_artists}

\* the number of rows the LEFT JOIN of song_artists contributes per song row
JoinedLinks(db, song_id) ==
    LET n == Cardinality({x \in db.song_artists : x[1] = song_id})
    IN  IF n = 0 THEN 1 ELSE n

\* ORDER BY reaction_count DESC, average_reaction DESC
ranks_before_by_count(x, y) ==
    \/ x.reaction_count > y.reaction_count
    \/ /\ x.reaction_count = y.reaction_count
       /\ avg_greater(x.average_reaction, y.average_reaction)

\* ORDER BY average_reaction DESC, reaction_count DESC: x must precede y
ranks_before(x, y) ==
    \/ avg_greater(x.average_reaction, y.average_reaction)
    \/ /\ avg_equal(x.average_reaction, y.average_reaction)
       /\ x.reaction_count > y.reaction_count

\* the orders ORDER BY may give the rows of S
Ordered(S) ==
    {q \in Perms(S) : \A i \in 1..Len(q), j \in 1..Len(q) : i < j => ~ranks_before(q[j], q[i])}

\* the row get_top_songs computes for a song
top_songs_row(db, rows, song_id) ==
    [id |-> song_id,
     title |-> db.songs[song_id].title,
     album |-> db.songs[song_id].album,
     reaction_count |-> reaction_count(rows, ReactionsOn(rows, song_id)),
     average_reaction |-> average(reaction_sum(rows, ReactionsOn(rows, song_id)),
                                  reaction_count(rows, ReactionsOn(rows, song_id)),
                                  JoinedLinks(db, song_id)),
     artists |-> {a.name : a \in ArtistsOf(db, song_id)}]

\* get_top_songs(limit), limit >= 0
get_top_songs(db, rows, limit) ==
    {Take(q, limit) :
        q \in Ordered({top_songs_row(db, rows, t) :
                          t \in {u \in DOMAIN db.songs : ArtistsOf(db, u) # {}}})}

\* the row get_unrated_songs returns for a song
unrated_songs_row(db, song_id) ==
    [id |-> song_id,
     title |-> db.songs[song_id].title,
     album |-> db.songs[song_id].album,
     artists |-> {a.name : a \in ArtistsOf(db, song_id)},
     message_link |-> db.songs[song_id].message_link]

\* get_unrated_songs without the condition s.user != ?
get_unrated_songs_own(db, rows, user_id) ==
    {unrated_songs_row(db, t) :
        t \in {u \in DOMAIN db.songs :
                  \A k \in DOMAIN rows : k[1] = u /\ k[2] = user_id => rows[k] = <<>>}}

\* get_unrated_songs(user_id): the rows, which the query leaves unordered
get_unrated_songs(db, rows, user_id) ==
    {unrated_songs_row(db, t) :
        t \in {u \in DOMAIN db.songs :
                  /\ \A k \in DOMAIN rows : k[1] = u /\ k[2] = user_id => rows[k] = <<>>
                  /\ db.songs[u].user # user_id}}

\* rated / total_rateable * 100 computed whatever total_rateable is
rating_percentage_unguarded(rated, total_rateable) ==
    [num |-> rated * 100, den |-> total_rateable]

\* (rated / total_rateable * 100) if total_rateable > 0 else 0
rating_percentage(rated, total_rateable) ==
    IF total_rateable > 0 THEN [num |-> rated * 100, den |-> total_rateable]
    ELSE [num |-> 0, den |-> 1]

\* the rated songs counted over all songs, the user's own included
get_user_statistics_own(db, rows, user_id) ==
    LET given == {k \in DOMAIN rows : k[2] = user_id}
        received == {k \in DOMAIN rows : k[1] \in DOMAIN db.songs
                                            /\ db.songs[k[1]].user = user_id}
        rateable == {t \in DOMAIN db.songs : db.songs[t].user # user_id}
        rated == {t \in DOMAIN db.songs :
                     \E k \in given : k[1] = t /\ rows[k] # <<>>}
    IN  [songs_submitted |->
             Cardinality({t \in DOMAIN db.songs : db.songs[t].user = user_id}),
         ratings_given |-> reaction_count(rows, given),
         avg_rating_given |->
             average(reaction_sum(rows, given), reaction_count(rows, given), 1),
         avg_rating_received |->
             average(reaction_sum(rows, received), reaction_count(rows, received), 1),
         rating_percentage |->
             rating_percentage(Cardinality(rated), Cardinality(rateable)),
         total_rateable_songs |-> Cardinality(rateable),
         songs_rated |-> Cardinality(rated)]

\* get_user_statistics(user_id)
get_user_statistics(db, rows, user_id) ==
    LET given == {k \in DOMAIN rows : k[2] = user_id}
        received == {k \in DOMAIN rows : k[1] \in DOMAIN db.songs
                                            /\ db.songs[k[1]].user = user_id}
        rateable == {t \in DOMAIN db.songs : db.songs[t].user # user_id}
        rated == {t \in rateable :
                     \E k \in given : k[1] = t /\ rows[k] # <<>>}
    IN  [songs_submitted |->
             Cardinality({t \in DOMAIN db.songs : db.songs[t].user = user_id}),
         ratings_given |-> reaction_count(rows, given),
         avg_rating_given |->
             average(reaction_sum(rows, given), reaction_count(rows, given), 1),
         avg_rating_received |->
             average(reaction_sum(rows, received), reaction_count(rows, received), 1),
         rating_percentage |->
             rating_percentage(Cardinality(rated), Cardinality(rateable)),
         total_rateable_songs |-> Cardinality(rateable),
         songs_rated |-> Cardinality(rated)]

\* ORDER BY average_rating DESC, reaction_count DESC
rating_ranks_before(x, y) ==
    \/ avg_greater(x.average_rating, y.average_rating)
    \/ /\ avg_equal(x.average_rating, y.average_rating)
       /\ x.reaction_count > y.reaction_count

\* the orders ORDER BY average_rating DESC, reaction_count DESC may give the
\* rows of S
OrderedByRating(S) ==
    {q \in Perms(S) :
        \A i \in 1..Len(q), j \in 1..Len(q) : i < j => ~rating_ranks_before(q[j], q[i])}

\* the row get_user_top_songs returns for a song
user_top_songs_row(db, rows, song_id) ==
    [title |-> db.songs[song_id].title,
     artists |-> {a.name : a \in ArtistsOf(db, song_id)},
     average_rating |-> average(reaction_sum(rows, ReactionsOn(rows, song_id)),
                                reaction_count(rows, ReactionsOn(rows, song_id)),
                                JoinedLinks(db, song_id)),
     reaction_count |-> reaction_count(rows, ReactionsOn(rows, song_id))]

\* get_user_top_songs(user_id, limit), limit >= 0
get_user_top_songs(db, rows, user_id, limit) ==
    {Take(q, limit) :
        q \in OrderedByRating(
                 {user_top_songs_row(db, rows, t) :
                     t \in {u \in DOMAIN db.songs :
                               /\ db.songs[u].user = user_id
                               /\ reaction_count(rows, ReactionsOn(rows, u)) > 0}})}

\* the songs of a user that song_artists joins to an artist
SongsOfArtist(db, user_id, artist_id) ==
    {t \in DOMAIN db.songs :
        db.songs[t].user = user_id /\ <<t, artist_id>> \in db.song_artists}

\* the row get_user_top_artists returns for an artists row a
user_top_artists_row(db, rows, user_id, a) ==
    LET keys == {k \in DOMAIN rows : k[1] \in SongsOfArtist(db, user_id, a.id)}
    IN  [name |-> a.name,
         song_count |-> Cardinality(SongsOfArtist(db, user_id, a.id)),
         average_rating |-> average(reaction_sum(rows, keys), reaction_count(rows, keys), 1)]

\* ORDER BY average_rating DESC, song_count DESC
artist_ranks_before_by_rating(x, y) ==
    \/ avg_greater(x.average_rating, y.average_rating)
    \/ /\ avg_equal(x.average_rating, y.average_rating)
       /\ x.song_count > y.song_count

\* ORDER BY song_count DESC, average_rating DESC
artist_ranks_before(x, y) ==
    \/ x.song_count > y.song_count
    \/ /\ x.song_count = y.song_count
       /\ avg_greater(x.average_rating, y.average_rating)

\* the orders ORDER BY song_count DESC, average_rating DESC may give the rows
\* of S
OrderedBySongCount(S) ==
    {q \in Perms(S) :
        \A i \in 1..Len(q), j \in 1..Len(q) : i < j => ~artist_ranks_before(q[j], q[i])}

\* get_user_top_artists(user_id, limit), limit >= 0
get_user_top_artists(db, rows, user_id, limit) ==
    {Take(q, limit) :
        q \in OrderedBySongCount(
                 {user_top_artists_row(db, rows, user_id, a) :
                     a \in {b \in db.artists : SongsOfArtist(db, user_id, b.id) # {}}})}

-----------------------------------------------------------------------------
(* Handlers of src/slack_bot/handlers.py.  A handler is an operator from the *)
(* tables and the event to the tables it leaves, its exit point (outcome)    *)
(* and the user-visible messages it posted (replies).                        *)

NoText == "NoText"

\* extract_spotify_track_id on the text of a channel message: the text either
\* carries the link of one track or no track link the pattern matches
track_id_of(text) == IF text \in Tracks THEN <<text>> ELSE <<>>

Reply(text, link) == [text |-> text, link |-> link]

\* a track without a stored link takes the current message as its original
add_until_fetch_reaction_nolink(tbl, reaction, message_ts, text) ==
    LET track_id == track_id_of(text)
        existing_song == fetch_songs(tbl, track_id[1])
        original_message_link == existing_song[1].message_link
    IN  IF reaction \notin AdmittedReactions
        THEN [outcome |-> "NotAdmitted", replies |-> <<>>]
        ELSE IF track_id = <<>>
        THEN [outcome |-> "NoTrackId", replies |-> <<>>]
        ELSE IF existing_song = <<>>
        THEN [outcome |-> "UnknownTrack",
              replies |-> <<Reply("This song is not in the database", NoLink)>>]
        ELSE IF original_message_link # NoLink
                /\ ~AddTsMatches(message_ts, original_message_link)
        THEN [outcome |-> "WrongMessage",
              replies |-> <<Reply("Reactions can only be added to the original song message",
                                  original_message_link)>>]
        ELSE [outcome |-> "continue", replies |-> <<>>]

\* handle_reaction_added up to, not including, its call of fetch_reaction
add_until_fetch_reaction(tbl, reaction, message_ts, text) ==
    LET track_id == track_id_of(text)
        existing_song == fetch_songs(tbl, track_id[1])
        original_message_link == existing_song[1].message_link
    IN  IF reaction \notin AdmittedReactions
        THEN [outcome |-> "NotAdmitted", replies |-> <<>>]
        ELSE IF track_id = <<>>
        THEN [outcome |-> "NoTrackId", replies |-> <<>>]
        ELSE IF existing_song = <<>>
        THEN [outcome |-> "UnknownTrack",
              replies |-> <<Reply("This song is not in the database", NoLink)>>]
        ELSE IF original_message_link = NoLink
        THEN [outcome |-> "NoCanonicalMessage",
              replies |-> <<Reply("No original message link found", NoLink)>>]
        ELSE IF ~AddTsMatches(message_ts, original_message_link)
        THEN [outcome |-> "WrongMessage",
              replies |-> <<Reply("Reactions can only be added to the original song message",
                                  original_message_link)>>]
        ELSE [outcome |-> "continue", replies |-> <<>>]

\* the duplicate check left out
add_after_fetch_reaction_nodup(existing_reaction, reaction) ==
    IF ~(convert_emoji_to_number(reaction) > 0)
    THEN [outcome |-> "NotARating", replies |-> <<>>]
    ELSE [outcome |-> "continue", replies |-> <<>>]

\* handle_reaction_added from the result of fetch_reaction to the insert
add_after_fetch_reaction(existing_reaction, reaction) ==
    IF Truthy(existing_reaction)
    THEN [outcome |-> "DuplicateRating",
          replies |-> <<Reply("You have already reacted to this song", NoLink)>>]
    ELSE IF ~(convert_emoji_to_number(reaction) > 0)
    THEN [outcome |-> "NotARating", replies |-> <<>>]
    ELSE [outcome |-> "continue", replies |-> <<>>]

\* handle_reaction_added inserting whatever the emoji decodes to
handle_reaction_added_nodecode(tbl, rows, reaction, message_ts, text, user) ==
    LET a == add_until_fetch_reaction(tbl, reaction, message_ts, text)
        track_id == track_id_of(text)[1]
        b == add_after_fetch_reaction(fetch_reaction(rows, track_id, user), reaction)
    IN  IF a.outcome # "continue"
        THEN [outcome |-> a.outcome, replies |-> a.replies, reactions |-> rows]
        ELSE IF b.outcome = "DuplicateRating"
        THEN [outcome |-> b.outcome, replies |-> b.replies, reactions |-> rows]
        ELSE [outcome |-> "Inserted", replies |-> <<>>,
              reactions |-> insert_reaction(rows, track_id, user,
                                            convert_emoji_to_number(reaction))]

handle_reaction_added(tbl, rows, reaction, message_ts, text, user) ==
    LET a == add_until_fetch_reaction(tbl, reaction, message_ts, text)
        track_id == track_id_of(text)[1]
        b == add_after_fetch_reaction(fetch_reaction(rows, track_id, user), reaction)
    IN  IF a.outcome # "continue"
        THEN [outcome |-> a.outcome, replies |-> a.replies, reactions |-> rows]
        ELSE IF b.outcome # "continue"
        THEN [outcome |-> b.outcome, replies |-> b.replies, reactions |-> rows]
        ELSE [outcome |-> "Inserted", replies |-> <<>>,
              reactions |-> insert_reaction(rows, track_id, user,
                                            convert_emoji_to_number(reaction))]

\* handle_reaction_removed up to, not including, its call of fetch_reaction
remove_until_fetch_reaction(tbl, reaction, message_ts, text) ==
    LET track_id == track_id_of(text)
        existing_song == fetch_songs(tbl, track_id[1])
        original_message_link == existing_song[1].message_link
    IN  IF reaction \notin AdmittedReactions
        THEN [outcome |-> "NotAdmitted", replies |-> <<>>]
        ELSE IF track_id = <<>>
        THEN [outcome |-> "NoTrackId", replies |-> <<>>]
        ELSE IF existing_song = <<>>
        THEN [outcome |-> "UnknownTrack",
              replies |-> <<Reply("This song is not in the database", NoLink)>>]
        ELSE IF original_message_link = NoLink
        THEN [outcome |-> "NoCanonicalMessage",
              replies |-> <<Reply("No original message link found", NoLink)>>]
        ELSE IF ~RemoveTsMatches(message_ts, original_message_link)
        THEN [outcome |-> "WrongMessage",
              replies |-> <<Reply("Reactions can only be removed from the original song message",
                                  original_message_link)>>]
        ELSE IF ~(convert_emoji_to_number(reaction) > 0)
        THEN [outcome |-> "NotARating", replies |-> <<>>]
        ELSE [outcome |-> "continue", replies |-> <<>>]

\* the comparison of the stored value with the removed emoji left out
remove_after_fetch_reaction_any(existing_reaction, reaction) ==
    IF ~Truthy(existing_reaction)
    THEN [outcome |-> "NoReaction",
          replies |-> <<Reply("You have not reacted to this song yet", NoLink)>>]
    ELSE [outcome |-> "continue", replies |-> <<>>]

\* handle_reaction_removed from the result of fetch_reaction to the delete
remove_after_fetch_reaction(existing_reaction, reaction) ==
    IF ~Truthy(existing_reaction)
    THEN [outcome |-> "NoReaction",
          replies |-> <<Reply("You have not reacted to this song yet", NoLink)>>]
    ELSE IF existing_reaction[1] # convert_emoji_to_number(reaction)
    THEN [outcome |-> "ReactionMismatch", replies |-> <<>>]
    ELSE [outcome |-> "continue", replies |-> <<>>]

handle_reaction_removed(tbl, rows, reaction, message_ts, text, user) ==
    LET a == remove_until_fetch_reaction(tbl, reaction, message_ts, text)
        track_id == track_id_of(text)[1]
        b == remove_after_fetch_reaction(fetch_reaction(rows, track_id, user), reaction)
    IN  IF a.outcome # "continue"
        THEN [outcome |-> a.outcome, replies |-> a.replies, reactions |-> rows]
        ELSE IF b.outcome # "continue"
        THEN [outcome |-> b.outcome, replies |-> b.replies, reactions |-> rows]
        ELSE [outcome |-> "Removed", replies |-> <<>>,
              reactions |-> remove_reaction(rows, track_id, user)]

\* handle_spotify_track_message when fetch_track_details returned None: as
\* fetch_failed, but with no message to the user
fetch_failed_silent(db) ==
    [songs |-> db.songs, artists |-> db.artists, song_artists |-> db.song_artists,
     outcome |-> "FetchFailed", replies |-> <<>>]

\* handle_spotify_track_message when fetch_track_details returned None
fetch_failed(db) ==
    [songs |-> db.songs, artists |-> db.artists, song_artists |-> db.song_artists,
     outcome |-> "FetchFailed",
     replies |-> <<Reply("Could not fetch track details", NoLink)>>]

\* handle_spotify_track_message; track_details is the Optional result of
\* fetch_track_details, message_link the permalink or NoLink
handle_spotify_track_message(db, text, user, track_details, message_link) ==
    LET track_id == track_id_of(text)
        details == track_details[1]
        unchanged == [songs |-> db.songs, artists |-> db.artists,
                      song_artists |-> db.song_artists]
        existing_song == fetch_songs(db.songs, details.id)
        original_message_link == existing_song[1].message_link
        songs1 == IF existing_song # <<>> /\ original_message_link = NoLink
                     /\ message_link # NoLink
                  THEN update_song_message_link(db.songs, details.id, message_link)
                  ELSE db.songs
        link_text == IF message_link # NoLink
                     THEN (IF original_message_link # NoLink
                           THEN original_message_link ELSE message_link)
                     ELSE NoLink
        exists_reply == IF existing_song # <<>>
                        THEN <<Reply("Track already exists in the database", link_text)>>
                        ELSE <<>>
        ins == insert_song_with_artists([unchanged EXCEPT !.songs = songs1], details.id,
                                        details.name, details.album, details.artists,
                                        user, message_link)
    IN  IF track_id = <<>>
        THEN unchanged @@ [outcome |-> "NoTrackId",
                           replies |-> <<Reply("No valid Spotify track ID found", NoLink)>>]
        ELSE IF track_details = <<>>
        THEN fetch_failed(db)
        ELSE IF ~ins.ok
        THEN [songs |-> ins.songs, artists |-> ins.artists,
              song_artists |-> ins.song_artists,
              outcome |-> "StoreError", replies |-> exists_reply]
        ELSE [songs |-> ins.songs, artists |-> ins.artists,
              song_artists |-> ins.song_artists, outcome |-> "Saved",
              replies |-> exists_reply \o <<Reply("Track details saved successfully", NoLink)>>]

-----------------------------------------------------------------------------
(* Atomic handling: one handler runs to completion before the next starts *)

Idle == [pc |-> "idle", m |-> 0, user |-> "", reaction |-> ""]

Init ==
    /\ songs = <<>>
    /\ artists = {}
    /\ song_artists = {}
    /\ reactions = [pair \in Tracks \X Users |-> <<>>]
    /\ history = <<>>
    /\ outcome = "none"
    /\ replies = <<>>
    /\ procs = [p \in Procs |-> Idle]
    /\ arg = <<>>
    /\ ret = <<>>

\* A message matching the track-link pattern is posted and handled
Submit(text, user, track_details, got_permalink) ==
    /\ Len(history) < MaxMsgs
    /\ \E res \in {handle_spotify_track_message(
                      [songs |-> songs, artists |-> artists, song_artists |-> song_artists],
                      text, user, track_details,
                      IF got_permalink THEN Permalink(Len(history) + 1) ELSE NoLink)} :
           /\ history' = Append(history, text)
           /\ songs' = res.songs
           /\ artists' = res.artists
           /\ song_artists' = res.song_artists
           /\ outcome' = res.outcome
           /\ replies' = res.replies
    /\ UNCHANGED <<reactions, procs, arg, ret>>

\* user adds the emoji reaction to message number m
ReactionAdded(m, user, reaction) ==
    /\ m \in 1..Len(history)
    /\ \E res \in {handle_reaction_added(songs, reactions, reaction, EventTs(m),
                                          history[m], user)} :
           /\ reactions' = res.reactions
           /\ outcome' = res.outcome
           /\ replies' = res.replies
    /\ UNCHANGED <<songs, artists, song_artists, history, procs, arg, ret>>

\* user removes the emoji reaction from message number m
ReactionRemoved(m, user, reaction) ==
    /\ m \in 1..Len(history)
    /\ \E res \in {handle_reaction_removed(songs, reactions, reaction, EventTs(m),
                                            history[m], user)} :
           /\ reactions' = res.reactions
           /\ outcome' = res.outcome
           /\ replies' = res.replies
    /\ UNCHANGED <<songs, artists, song_artists, history, procs, arg, ret>>

SubmitStep ==
    \E text \in Tracks \cup {NoText}, user \in Users, got_permalink \in BOOLEAN :
        \E track_details \in {<<>>} \cup {<<d>> : d \in BasicDetails(text)} :
            Submit(text, user, track_details, got_permalink)

ReactionAddedStep ==
    \E m \in 1..MaxMsgs, user \in Users, reaction \in EventReactions :
        ReactionAdded(m, user, reaction)

ReactionRemovedStep ==
    \E m \in 1..MaxMsgs, user \in Users, reaction \in EventReactions :
        ReactionRemoved(m, user, reaction)

Next == SubmitStep \/ ReactionAddedStep \/ ReactionRemovedStep

Spec == Init /\ [][Next]_vars

-----------------------------------------------------------------------------
(* Atomic handling with provider metadata that changes between submissions *)
(* and one rating emoji                                                    *)

SubmitChangingStep ==
    \E text \in Tracks \cup {NoText}, user \in Users, got_permalink \in BOOLEAN :
        \E track_details \in {<<>>} \cup {<<d>> : d \in ChangingDetails(text)} :
            Submit(text, user, track_details, got_permalink)

RateStep == \E m \in 1..MaxMsgs, user \in Users : ReactionAdded(m, user, "one")

UnrateStep == \E m \in 1..MaxMsgs, user \in Users : ReactionRemoved(m, user, "one")

NextSubmissions == SubmitChangingStep \/ RateStep \/ UnrateStep

SpecSubmissions == Init /\ [][NextSubmissions]_vars

-----------------------------------------------------------------------------
(* Atomic handling of the ratings of one track with every rating emoji *)

RatingSymbols == DOMAIN emoji_to_number

RerateSubmitStep ==
    \E user \in Users, d \in BasicDetails("T1") : Submit("T1", user, <<d>>, TRUE)

RerateAddedStep ==
    \E m \in 1..MaxMsgs, user \in Users, reaction \in RatingSymbols :
        ReactionAdded(m, user, reaction)

RerateRemovedStep ==
    \E m \in 1..MaxMsgs, user \in Users, reaction \in RatingSymbols :
        ReactionRemoved(m, user, reaction)

NextRerate == RerateSubmitStep \/ RerateAddedStep \/ RerateRemovedStep

SpecRerate == Init /\ [][NextRerate]_vars

-----------------------------------------------------------------------------
(* Atomic handling of submissions and of ratings with the emoji "five" *)

FiveSubmitStep ==
    \E text \in Tracks, user \in Users, got_permalink \in BOOLEAN :
        \E track_details \in {<<>>} \cup {<<d>> : d \in BasicDetails(text)} :
            Submit(text, user, track_details, got_permalink)

FiveAddedStep == \E m \in 1..MaxMsgs, user \in Users : ReactionAdded(m, user, "five")

FiveRemovedStep == \E m \in 1..MaxMsgs, user \in Users : ReactionRemoved(m, user, "five")

NextEndToEnd == FiveSubmitStep \/ FiveAddedStep \/ FiveRemovedStep

SpecEndToEnd == Init /\ [][NextEndToEnd]_vars

-----------------------------------------------------------------------------
(* Atomic handling of submissions and of reactions with emoji that are and *)
(* that are not ratings                                                    *)

ZeroReactions == {"zero", "ten", "five"}

ZeroSubmitStep ==
    \E text \in Tracks, user \in Users :
        \E d \in BasicDetails(text) : Submit(text, user, <<d>>, TRUE)

ZeroAddedStep ==
    \E m \in 1..MaxMsgs, user \in Users, reaction \in ZeroReactions :
        ReactionAdded(m, user, reaction)

ZeroRemovedStep ==
    \E m \in 1..MaxMsgs, user \in Users, reaction \in ZeroReactions :
        ReactionRemoved(m, user, reaction)

NextNotARating == ZeroSubmitStep \/ ZeroAddedStep \/ ZeroRemovedStep

SpecNotARating == Init /\ [][NextNotARating]_vars

-----------------------------------------------------------------------------
(* The store's queries applied to stores drawn from bounded sets *)

QueryRatings == {1, 4, 7}

RowChoices == {<<>>} \cup {<<v>> : v \in QueryRatings}

\* the songs tables over the tracks, each row with its submitting user
SongTables ==
    UNION {{[t \in S |-> [title |-> t, album |-> "Album1", user |-> by[t],
                          message_link |-> NoLink]] : by \in [S -> Users]} :
              S \in SUBSET Tracks}

\* the stores with artists rows from artistRows and the reactions rows of a
\* (song, user) pair from choices
StoreStates(artistRows, choices) ==
    {[songs |-> sg,
      artists |-> {a \in artistRows : \E x \in sa : x[2] = a.id},
      song_artists |-> sa,
      reactions |-> rx] :
        sg \in SongTables,
        sa \in SUBSET (Tracks \X {a.id : a \in artistRows}),
        rx \in [Tracks \X Users -> choices]}

\* the song_artists and reactions rows all belong to stored songs
ConsistentStore(st) ==
    /\ \A x \in st.song_artists : x[1] \in DOMAIN st.songs
    /\ \A k \in DOMAIN st.reactions : st.reactions[k] # <<>> => k[1] \in DOMAIN st.songs

\* tracks A (three ratings of 9), B (five ratings of 9) and C (one rating of
\* 4, no artists)
ExampleStore ==
    [songs |-> [t \in {"A", "B", "C"} |->
                   [title |-> t, album |-> "Album1", user |-> "U1", message_link |-> NoLink]],
     artists |-> {[id |-> "A1", name |-> "x"]},
     song_artists |-> {<<"A", "A1">>, <<"B", "A1">>},
     reactions |->
        [k \in {"A", "B", "C"} \X {"U1", "U2", "U3", "U4", "U5"} |->
            IF k[1] = "B" THEN <<9>>
            ELSE IF k[1] = "A" /\ k[2] \in {"U1", "U2", "U3"} THEN <<9>>
            ELSE IF k = <<"C", "U1">> THEN <<4>>
            ELSE <<>>]]

InitStore(st) ==
    /\ songs = st.songs
    /\ artists = st.artists
    /\ song_artists = st.song_artists
    /\ reactions = st.reactions
    /\ history = <<>>
    /\ outcome = "none"
    /\ replies = <<>>
    /\ procs = [p \in Procs |-> Idle]
    /\ arg = <<>>
    /\ ret = <<>>

\* the result of a query, once per store
Query(call, result) ==
    /\ ret = <<>>
    /\ arg' = call
    /\ ret' = <<result>>
    /\ UNCHANGED <<songs, artists, song_artists, reactions, history, outcome, replies, procs>>

InitTopSongs ==
    \E st \in {x \in StoreStates({[id |-> "A1", name |-> "x"]}, RowChoices) : ConsistentStore(x)}
                \cup {ExampleStore} :
        InitStore(st)

TopSongs ==
    \E limit \in 0..MaxLimit :
        \E result \in get_top_songs([songs |-> songs, artists |-> artists,
                                      song_artists |-> song_artists], reactions, limit) :
            Query([limit |-> limit], result)

NextTopSongs == TopSongs

SpecTopSongs == InitTopSongs /\ [][NextTopSongs]_vars

InitQueries ==
    \E st \in {x \in StoreStates({[id |-> "A1", name |-> "x"]}, RowChoices) : ConsistentStore(x)} :
        InitStore(st)

Unrated ==
    \E user_id \in Users :
        Query([user_id |-> user_id],
              get_unrated_songs([songs |-> songs, artists |-> artists,
                                 song_artists |-> song_artists], reactions, user_id))

NextUnrated == Unrated

SpecUnrated == InitQueries /\ [][NextUnrated]_vars

Statistics ==
    \E user_id \in Users :
        Query([user_id |-> user_id],
              get_user_statistics([songs |-> songs, artists |-> artists,
                                   song_artists |-> song_artists], reactions, user_id))

NextStatistics == Statistics

SpecStatistics == InitQueries /\ [][NextStatistics]_vars

InitUserTop ==
    \E st \in {x \in StoreStates({[id |-> "A1", name |-> "x"], [id |-> "A2", name |-> "y"]},
                                    {<<>>, <<1>>, <<7>>}) :
                 ConsistentStore(x)} :
        InitStore(st)

UserTopSongs ==
    \E user_id \in Users, limit \in 0..MaxLimit :
        \E result \in get_user_top_songs([songs |-> songs, artists |-> artists,
                                           song_artists |-> song_artists],
                                          reactions, user_id, limit) :
            Query([query |-> "songs", user_id |-> user_id, limit |-> limit], result)

UserTopArtists ==
    \E user_id \in Users, limit \in 0..MaxLimit :
        \E result \in get_user_top_artists([songs |-> songs, artists |-> artists,
                                             song_artists |-> song_artists],
                                            reactions, user_id, limit) :
            Query([query |-> "artists", user_id |-> user_id, limit |-> limit], result)

NextUserTop == UserTopSongs \/ UserTopArtists

SpecUserTop == InitUserTop /\ [][NextUserTop]_vars

-----------------------------------------------------------------------------
(* convert_emoji_to_number applied to reaction names *)

NumberNames ==
    <<"one", "two", "three", "four", "five", "six", "seven", "eight", "nine", "ten">>

\* reaction names: the number names and "zero", plain, as keycaps and with
\* other prefixes and suffixes, the empty string and other emoji
Symbols ==
    {p \o n \o x :
        p \in {"", "keycap_", "large_"},
        n \in {NumberNames[i] : i \in 1..Len(NumberNames)} \cup {"zero"},
        x \in {"", "::skin-tone-2"}}
    \cup {"", "thumbsup", "invalid_emoji"}

InitCodec ==
    /\ songs = <<>>
    /\ artists = {}
    /\ song_artists = {}
    /\ reactions = [pair \in Tracks \X Users |-> <<>>]
    /\ history = <<>>
    /\ outcome = "none"
    /\ replies = <<>>
    /\ procs = [p \in Procs |-> Idle]
    /\ arg \in {[emoji |-> e] : e \in Symbols}
    /\ ret = <<>>

Convert ==
    /\ ret = <<>>
    /\ ret' = <<convert_emoji_to_number(arg.emoji)>>
    /\ UNCHANGED <<songs, artists, song_artists, reactions, history, outcome, replies,
                   procs, arg>>

NextCodec == Convert

SpecCodec == InitCodec /\ [][NextCodec]_vars

-----------------------------------------------------------------------------
(* Message templates.  data is a function from field names (character       *)
(* sequences) to Python values, a number with its decimal digits as chars.   *)

Num(digits) == [kind |-> "int", chars |-> digits]

\* the place of the first c in s, 0 when there is none
Find(s, c) == IF \E i \in 1..Len(s) : s[i] = c THEN Min({i \in 1..Len(s) : s[i] = c}) ELSE 0

\* format(value, spec) for the specs "" and ".1f"; any other spec, and ".1f"
\* for a str, is a ValueError (<<>>)
FormatValue(value, spec) ==
    IF spec = <<>> THEN <<value.chars>>
    ELSE IF spec = <<".", "1", "f">> /\ value.kind = "int" THEN <<value.chars \o <<".", "0">>>>
    ELSE <<>>

RECURSIVE Format(_, _, _)
\* str.format(**data) from left to right; a field missing from data raises
\* KeyError (when lenient, it is left out of the message instead)
Format(template, data, lenient) ==
    IF template = <<>> THEN [error |-> "", value |-> <<>>]
    ELSE IF Head(template) = "}" THEN [error |-> "ValueError", value |-> <<>>]
    ELSE IF Head(template) # "{"
    THEN LET rest == Format(Tail(template), data, lenient) IN
         IF rest.error # "" THEN rest
         ELSE [error |-> "", value |-> <<Head(template)>> \o rest.value]
    ELSE LET close == Find(template, "}")
             field == SubSeq(template, 2, close - 1)
             colon == Find(field, ":")
             name == IF colon = 0 THEN field ELSE SubSeq(field, 1, colon - 1)
             spec == IF colon = 0 THEN <<>> ELSE SubSeq(field, colon + 1, Len(field))
             shown == IF name \in DOMAIN data THEN FormatValue(data[name], spec)
                      ELSE << <<>> >>
             rest == Format(SubSeq(template, close + 1, Len(template)), data, lenient)
         IN  IF close = 0 \/ Find(field, "{") # 0 THEN [error |-> "ValueError", value |-> <<>>]
             ELSE IF name = <<>> THEN [error |-> "IndexError", value |-> <<>>]
             ELSE IF name \notin DOMAIN data /\ ~lenient
             THEN [error |-> "KeyError", value |-> <<>>]
             ELSE IF shown = <<>> THEN [error |-> "ValueError", value |-> <<>>]
             ELSE IF rest.error # "" THEN rest
             ELSE [error |-> "", value |-> shown[1] \o rest.value]

MissingData ==
    <<"E", "r", "r", "o", "r", " ", "f", "o", "r", "m", "a", "t", "t", "i", "n",
      "g", " ", "m", "e", "s", "s", "a", "g", "e", ".", " ", "M", "i", "s", "s",
      "i", "n", "g", " ", "d", "a", "t", "a", ".">>

format_stats_message_lenient(template, data) ==
    LET done == Format(template, data, TRUE)
    IN  IF done.error = "KeyError" THEN [raised |-> FALSE, value |-> MissingData]
        ELSE IF done.error # "" THEN [raised |-> TRUE, value |-> <<>>]
        ELSE [raised |-> FALSE, value |-> done.value]

\* format_stats_message: only KeyError is caught
format_stats_message(template, data) ==
    LET done == Format(template, data, FALSE)
    IN  IF done.error = "KeyError" THEN [raised |-> FALSE, value |-> MissingData]
        ELSE IF done.error # "" THEN [raised |-> TRUE, value |-> <<>>]
        ELSE [raised |-> FALSE, value |-> done.value]

-----------------------------------------------------------------------------
(* Slash commands.  A handler's result says whether it raised, what it       *)
(* replied and which store queries it made.                                  *)

PyNone == [kind |-> "None", chars |-> <<>>]

\* bool(v) of a Python value
bool(v) == v.kind = "True" \/ (v.kind = "str" /\ v.chars # <<>>)

\* args.get(key, default)
Get(args, key, default) == IF key \in DOMAIN args THEN args[key] ELSE default

KeyUser == <<"u", "s", "e", "r">>
KeySong == <<"s", "o", "n", "g">>
KeyArtist == <<"a", "r", "t", "i", "s", "t">>
KeyCount == <<"c", "o", "u", "n", "t">>

Done(said, queries) == [raised |-> FALSE, error |-> "", replies |-> said, queries |-> queries]
Raised(error, queries) == [raised |-> TRUE, error |-> error, replies |-> <<>>, queries |-> queries]

\* respond(...) is not public, say(...) is
Respond(text) == [text |-> text, public |-> FALSE]
send_response(text, is_public) == [text |-> text, public |-> is_public]

\* the characters of the strings that stand for track ids and titles
Chars == ("T1" :> <<"T", "1">>) @@ ("T2" :> <<"T", "2">>)

LowerCase == <<"a", "b", "c", "d", "e", "f", "g", "h", "i", "j", "k", "l", "m", "n", "o", "p", "q", "r", "s", "t", "u", "v", "w", "x", "y", "z">>
UpperCase == <<"A", "B", "C", "D", "E", "F", "G", "H", "I", "J", "K", "L", "M", "N", "O", "P", "Q", "R", "S", "T", "U", "V", "W", "X", "Y", "Z">>

\* LIKE compares ASCII letters without regard to case
Fold(c) == IF \E i \in 1..26 : UpperCase[i] = c
           THEN LowerCase[CHOOSE i \in 1..26 : UpperCase[i] = c] ELSE c

\* title LIKE '%' || part || '%', for a part without the wildcards % and _
Like(title, part) ==
    \E p \in 1..(Len(title) - Len(part) + 1) :
        \A i \in 1..Len(part) : Fold(title[p + i - 1]) = Fold(part[i])

\* fetch_song_by_name: the ids of the songs whose title matches
fetch_song_by_name(tbl, title) == {t \in DOMAIN tbl : Like(Chars[tbl[t].title], title)}

\* the characters of the class [A-Z0-9]
UpperAlnum == {UpperCase[i] : i \in 1..26} \cup {DigitChar[i] : i \in 1..10}

\* get_user_id: re.match(r"<@([A-Z0-9]+)\|", user), None is <<>>
get_user_id(user) ==
    LET mention == {e \in 3..(Len(user) - 1) :
                        /\ user[1] = "<" /\ user[2] = "@"
                        /\ \A i \in 3..e : user[i] \in UpperAlnum
                        /\ user[e + 1] = "|"}
    IN  IF mention = {} THEN <<>> ELSE <<SubSeq(user, 3, Min(mention))>>

\* handle_song_stats: users_info is asked for the submitter's name (and the
\* raters' names) and raises when the Slack API fails; get_message_time
\* searches the stored link, which raises TypeError for a NULL link
handle_song_stats(song_details, slack) ==
    IF ~slack.api_up THEN "SlackApiError"
    ELSE IF song_details.message_link = NoLink THEN "TypeError"
    ELSE "SongStats"

\* the --song branch of handle_stats_command, song a str
song_stats(db, song, is_public, slack) ==
    LET extracted == extract_spotify_track_id(song.chars)
        direct == IF extracted # <<>> THEN extracted
                  ELSE IF is_valid_spotify_id(song).value THEN <<song.chars>>
                  ELSE <<>>
        matches == fetch_song_by_name(db.songs, song.chars)
        byName == direct = <<>>
        q1 == IF byName THEN <<"fetch_song_by_name">> ELSE <<>>
        q2 == q1 \o <<"fetch_songs", "fetch_reactions_for_track">>
        stored == IF byName THEN matches
                  ELSE {t \in DOMAIN db.songs : Chars[t] = direct[1]}
        text == handle_song_stats(db.songs[CHOOSE t \in stored : TRUE], slack)
    IN  IF byName /\ matches = {} THEN Done(<<Respond("NoSongsFound")>>, q1)
        ELSE IF byName /\ Cardinality(matches) > 1 THEN Done(<<Respond("MultipleSongs")>>, q1)
        ELSE IF stored = {} THEN Done(<<Respond("NoSongWithId")>>, q2)
        ELSE IF text = "SongStats" THEN Done(<<send_response(text, is_public)>>, q2)
        ELSE Raised(text, q2)

\* handle_stats_command; slack is what the Slack API does during the call
handle_stats_command(db, command_text, slack) ==
    LET args == parse_command_arguments(command_text)
        is_public == bool(Get(args, KeyPublic, PyFalse))
        user == Get(args, KeyUser, PyNone)
        song == Get(args, KeySong, PyNone)
        artist == Get(args, KeyArtist, PyNone)
        given == {key \in {KeyUser, KeySong, KeyArtist} : bool(Get(args, key, PyNone))}
    IN  IF Cardinality(given) # 1 THEN Done(<<Respond("SpecifyExactlyOne")>>, <<>>)
        ELSE IF bool(user)
        THEN \* re.match raises TypeError for True
             IF user.kind # "str" THEN Raised("TypeError", <<>>)
             ELSE IF get_user_id(user.chars) = <<>> THEN Done(<<Respond("InvalidUserMention")>>, <<>>)
             ELSE IF ~slack.user_ok THEN Done(<<Respond("UserDoesNotExist")>>, <<>>)
             ELSE Done(<<>>, <<>>)
        ELSE IF bool(song)
        THEN IF song.kind # "str" THEN Done(<<Respond("SpecifySong")>>, <<>>)
             ELSE song_stats(db, song, is_public, slack)
        \* SpotifyBotDatabase has no attribute fetch_artist_id_by_name
        ELSE Raised("AttributeError", <<>>)

\* str.isdigit() for ASCII text
isdigit(s) == s # <<>> /\ \A i \in 1..Len(s) : \E d \in 1..10 : DigitChar[d] = s[i]

RECURSIVE int(_)
\* int(s) for a string of decimal digits
int(s) ==
    IF s = <<>> THEN 0
    ELSE 10 * int(SubSeq(s, 1, Len(s) - 1))
         + (CHOOSE d \in 0..9 : DigitChar[d + 1] = s[Len(s)])

DefaultCount == <<"1", "0">>

\* handle_leaderboard_command; top_songs is the Optional result of
\* db.get_top_songs for the handler's limit, <<>> when the query raised
handle_leaderboard_command(command_text, top_songs) ==
    LET args == parse_command_arguments(command_text)
        is_public == bool(Get(args, KeyPublic, PyFalse))
        count == Get(args, KeyCount, Str(DefaultCount))
        query == [call |-> "get_top_songs", limit |-> int(count.chars)]
    IN  \* True has no attribute isdigit, and the test is outside the try block
        IF count.kind # "str" THEN Raised("AttributeError", <<>>)
        ELSE IF ~isdigit(count.chars) \/ int(count.chars) <= 0
        THEN Done(<<Respond("InvalidCount")>>, <<>>)
        ELSE IF top_songs = <<>> THEN Done(<<Respond("LeaderboardError")>>, <<query>>)
        ELSE IF top_songs[1] = <<>> THEN Done(<<Respond("NoSongs")>>, <<query>>)
        ELSE Done(<<send_response("Leaderboard", is_public)>>, <<query>>)

-----------------------------------------------------------------------------
(* is_valid_spotify_id applied to candidate identifiers *)

\* n alphanumeric characters
AlnumRun(n) == [i \in 1..n |-> IF i % 3 = 0 THEN "a" ELSE IF i % 3 = 1 THEN "Z" ELSE "6"]

\* candidates: runs of about IdLength alphanumeric characters, as they are
\* or with one character replaced, and with or without something appended;
\* short strings; values that are no str
IdCandidates ==
    {Str([AlnumRun(n) EXCEPT ![i] = c] \o x) :
        n \in (IdLength - MaxSlack)..(IdLength + MaxSlack),
        i \in 1..(IdLength - MaxSlack),
        c \in {"b", "-", " ", "\n"},
        x \in {<<>>, <<"\n">>, <<"\n", "\n">>, <<"7">>}}
    \cup {Str(<<>>), Str(<<"i", "n", "v", "a", "l", "i", "d">>)}
    \cup {[kind |-> "None", chars |-> <<>>], [kind |-> "int", chars |-> <<>>]}

InitValidId ==
    /\ songs = <<>>
    /\ artists = {}
    /\ song_artists = {}
    /\ reactions = [pair \in Tracks \X Users |-> <<>>]
    /\ history = <<>>
    /\ outcome = "none"
    /\ replies = <<>>
    /\ procs = [p \in Procs |-> Idle]
    /\ arg \in IdCandidates
    /\ ret = <<>>

Validate ==
    /\ ret = <<>>
    /\ ret' = <<is_valid_spotify_id(arg)>>
    /\ UNCHANGED <<songs, artists, song_artists, reactions, history, outcome, replies,
                   procs, arg>>

NextValidId == Validate

SpecValidId == InitValidId /\ [][NextValidId]_vars

-----------------------------------------------------------------------------
(* extract_spotify_track_id applied to message texts *)

\* pieces a message text is put together from
TextPieces ==
    {TrackUrl, SubSeq(TrackUrl, 1, Len(TrackUrl) - 1), <<"i", "n", "v", "a", "l", "i", "d">>,
     <<"4", "u", "Z">>, <<"?", "s", "i", "=", "x">>, <<" ">>, <<"\n">>}

RECURSIVE Concat(_)
Concat(pieces) == IF pieces = <<>> THEN <<>> ELSE Head(pieces) \o Concat(Tail(pieces))

MessageTexts ==
    {Concat(pieces) : pieces \in UNION {[1..n -> TextPieces] : n \in 0..MaxPieces}}

InitExtract ==
    /\ songs = <<>>
    /\ artists = {}
    /\ song_artists = {}
    /\ reactions = [pair \in Tracks \X Users |-> <<>>]
    /\ history = <<>>
    /\ outcome = "none"
    /\ replies = <<>>
    /\ procs = [p \in Procs |-> Idle]
    /\ arg \in MessageTexts
    /\ ret = <<>>

Extract ==
    /\ ret = <<>>
    /\ ret' = <<extract_spotify_track_id(arg)>>
    /\ UNCHANGED <<songs, artists, song_artists, reactions, history, outcome, replies,
                   procs, arg>>

NextExtract == Extract

SpecExtract == InitExtract /\ [][NextExtract]_vars

-----------------------------------------------------------------------------
(* parse_command_arguments applied to command texts *)

\* a command text: tokens with whitespace between and around them
RECURSIVE Join(_, _)
Join(tokens, sep) ==
    IF tokens = <<>> THEN <<>>
    ELSE IF Len(tokens) = 1 THEN tokens[1]
    ELSE tokens[1] \o sep \o Join(Tail(tokens), sep)

CommandTexts(tokenSet) ==
    {pad \o Join(tokens, sep) \o pad :
        tokens \in UNION {[1..n -> tokenSet] : n \in 0..MaxTokens},
        sep \in {<<" ">>, <<"\t", " ">>},
        pad \in {<<>>, <<" ">>}}

\* --public  --count  --x  --  5  bob  -v
ArgumentTokens ==
    {<<"-", "-", "p", "u", "b", "l", "i", "c">>,
     <<"-", "-", "c", "o", "u", "n", "t">>,
     <<"-", "-", "x">>,
     <<"-", "-">>,
     <<"5">>,
     <<"b", "o", "b">>,
     <<"-", "v">>}

InitArguments ==
    /\ songs = <<>>
    /\ artists = {}
    /\ song_artists = {}
    /\ reactions = [pair \in Tracks \X Users |-> <<>>]
    /\ history = <<>>
    /\ outcome = "none"
    /\ replies = <<>>
    /\ procs = [p \in Procs |-> Idle]
    /\ arg \in CommandTexts(ArgumentTokens)
    /\ ret = <<>>

Parse ==
    /\ ret = <<>>
    /\ ret' = <<parse_command_arguments(arg)>>
    /\ UNCHANGED <<songs, artists, song_artists, reactions, history, outcome, replies,
                   procs, arg>>

NextArguments == Parse

SpecArguments == InitArguments /\ [][NextArguments]_vars

-----------------------------------------------------------------------------
(* /stats on stores of up to two songs *)

\* --user  --song  --artist  --public  <@U1|bob>  T2  t
\* (the last two: a link to track T1, and a 22-character id that is not stored)
StatsTokens ==
    {<<"-", "-", "u", "s", "e", "r">>,
     <<"-", "-", "s", "o", "n", "g">>,
     <<"-", "-", "a", "r", "t", "i", "s", "t">>,
     <<"-", "-", "p", "u", "b", "l", "i", "c">>,
     <<"<", "@", "U", "1", "|", "b", "o", "b", ">">>,
     <<"T", "2">>,
     <<"t">>,
     TrackUrl \o Chars["T1"],
     AlnumRun(IdLength)}

\* T1 stored with or without a link and rated by U2, T2 stored with a link
StatsStores ==
    {[songs |-> [t \in S |-> [title |-> t, album |-> "Album1", user |-> "U1",
                              message_link |-> IF t = "T1" THEN link ELSE Permalink(2)]],
      artists |-> {},
      song_artists |-> {},
      reactions |-> [k \in Tracks \X Users |->
                        IF k = <<"T1", "U2">> /\ "T1" \in S THEN <<7>> ELSE <<>>]] :
        S \in SUBSET Tracks, link \in {NoLink, Permalink(1)}}

InitStats ==
    \E st \in StatsStores :
        /\ songs = st.songs
        /\ artists = st.artists
        /\ song_artists = st.song_artists
        /\ reactions = st.reactions
        /\ history \in {Join(tokens, <<" ">>) :
                            tokens \in UNION {[1..n -> StatsTokens] : n \in 0..MaxTokens}}
        /\ outcome = "none"
        /\ replies = <<>>
        /\ procs = [p \in Procs |-> Idle]
        /\ arg = <<>>
        /\ ret = <<>>

\* the command texts are kept in history, the handler's result in ret
Stats ==
    \E slack \in [user_ok : BOOLEAN, api_up : BOOLEAN] :
        LET result == handle_stats_command(
                          [songs |-> songs, artists |-> artists, song_artists |-> song_artists],
                          history, slack)
        IN  /\ ret = <<>>
            /\ ret' = <<result>>
            /\ arg' = slack
            /\ outcome' = IF result.raised THEN result.error ELSE "Done"
            /\ replies' = result.replies
            /\ UNCHANGED <<songs, artists, song_artists, reactions, history, procs>>

NextStats == Stats

SpecStats == InitStats /\ [][NextStats]_vars

-----------------------------------------------------------------------------
(* format_stats_message applied to templates of named fields *)

FieldName == <<"n", "a", "m", "e">>
FieldCount == <<"c", "o", "u", "n", "t">>
FieldRating == <<"r", "a", "t", "i", "n", "g">>

\* a piece of a template: literal text, or a replacement field with its format spec
Literal(text) == [field |-> <<>>, spec |-> <<>>, text |-> text]
Field(name, spec) ==
    [field |-> name, spec |-> spec,
     text |-> <<"{">> \o name \o (IF spec = <<>> THEN <<>> ELSE <<":">> \o spec) \o <<"}">>]

TemplatePieces ==
    {Literal(<<"H", "i", " ">>), Literal(<<"\n">>),
     Field(FieldName, <<>>), Field(FieldCount, <<>>), Field(FieldRating, <<".", "1", "f">>)}

\* the data of a call: some of the fields, a str for the name and numbers for
\* the count and the rating
FullData ==
    (FieldName :> Str(<<"J", "o", "h", "n">>)) @@ (FieldCount :> Num(<<"5">>)) @@ (FieldRating :> Num(<<"7">>))

DataChoices == {[name \in names |-> FullData[name]] : names \in SUBSET DOMAIN FullData}

\* the pieces of the template are kept in history
InitFormat ==
    /\ songs = <<>>
    /\ artists = {}
    /\ song_artists = {}
    /\ reactions = [pair \in Tracks \X Users |-> <<>>]
    /\ history \in UNION {[1..n -> TemplatePieces] : n \in 0..MaxPieces}
    /\ outcome = "none"
    /\ replies = <<>>
    /\ procs = [p \in Procs |-> Idle]
    /\ arg \in DataChoices
    /\ ret = <<>>

FormatMessage ==
    /\ ret = <<>>
    /\ ret' = <<format_stats_message(Concat([i \in 1..Len(history) |-> history[i].text]), arg)>>
    /\ UNCHANGED <<songs, artists, song_artists, reactions, history, outcome, replies,
                   procs, arg>>

NextFormat == FormatMessage

SpecFormat == InitFormat /\ [][NextFormat]_vars

-----------------------------------------------------------------------------
(* delete_song on stores of up to two songs and two artists *)

InitDelete ==
    \E st \in {x \in StoreStates({[id |-> "A1", name |-> "x"], [id |-> "A2", name |-> "y"]},
                                 {<<>>, <<7>>}) : ConsistentStore(x)} :
        InitStore(st)

\* the call is kept in arg
DeleteSong ==
    \E song_id \in Tracks :
        LET res == delete_song([songs |-> songs, artists |-> artists,
                                song_artists |-> song_artists], reactions, song_id)
        IN  /\ arg' = [song_id |-> song_id]
            /\ songs' = res.songs
            /\ artists' = res.artists
            /\ song_artists' = res.song_artists
            /\ reactions' = res.reactions
            /\ outcome' = "Deleted"
            /\ UNCHANGED <<history, replies, procs, ret>>

NextDelete == DeleteSong

SpecDelete == InitDelete /\ [][NextDelete]_vars

-----------------------------------------------------------------------------
(* /leaderboard on stores of up to three songs *)

\* --count  --public  3  0  07  abc  -3
LeaderboardTokens ==
    {<<"-", "-", "c", "o", "u", "n", "t">>,
     <<"-", "-", "p", "u", "b", "l", "i", "c">>,
     <<"3">>,
     <<"0">>,
     <<"0", "7">>,
     <<"a", "b", "c">>,
     <<"-", "3">>}

\* the example store, and the stores of unrated songs with or without an artist
LeaderboardStores ==
    {ExampleStore} \cup
    {x \in StoreStates({[id |-> "A1", name |-> "x"]}, {<<>>}) : ConsistentStore(x)}

InitLeaderboard ==
    \E st \in LeaderboardStores :
        /\ songs = st.songs
        /\ artists = st.artists
        /\ song_artists = st.song_artists
        /\ reactions = st.reactions
        /\ history \in {Join(tokens, <<" ">>) :
                            tokens \in UNION {[1..n -> LeaderboardTokens] : n \in 0..MaxTokens}}
        /\ outcome = "none"
        /\ replies = <<>>
        /\ procs = [p \in Procs |-> Idle]
        /\ arg = <<>>
        /\ ret = <<>>

\* the command text is kept in history, what get_top_songs did in arg
Leaderboard ==
    LET count == Get(parse_command_arguments(history), KeyCount, Str(DefaultCount))
        limit == IF count.kind = "str" /\ isdigit(count.chars) THEN int(count.chars) ELSE 0
    IN  \E top_songs \in {<<>>} \cup
                {<<rows>> : rows \in get_top_songs([songs |-> songs, artists |-> artists,
                                                    song_artists |-> song_artists],
                                                   reactions, limit)} :
            LET result == handle_leaderboard_command(history, top_songs)
            IN  /\ ret = <<>>
                /\ ret' = <<result>>
                /\ arg' = top_songs
                /\ outcome' = IF result.raised THEN result.error ELSE "Done"
                /\ replies' = result.replies
                /\ UNCHANGED <<songs, artists, song_artists, reactions, history, procs>>

NextLeaderboard == Leaderboard

SpecLeaderboard == InitLeaderboard /\ [][NextLeaderboard]_vars

-----------------------------------------------------------------------------
(* Atomic handling of submissions, of ratings with the emoji "five" and of *)
(* delete_song calls                                                       *)

NextLifecycle == FiveSubmitStep \/ FiveAddedStep \/ FiveRemovedStep \/ DeleteSong

SpecLifecycle == Init /\ [][NextLifecycle]_vars

-----------------------------------------------------------------------------
(* Atomic handling of the reactions that users put on and take off the     *)
(* messages.  arg is the set of the reactions Slack shows: a user can add  *)
(* an emoji to a message only when it is not there, and remove it only     *)
(* when it is; each change is delivered as one event.                      *)

VisibleEmoji == {"one", "two"}

InitVisible ==
    /\ songs = <<>>
    /\ artists = {}
    /\ song_artists = {}
    /\ reactions = [pair \in Tracks \X Users |-> <<>>]
    /\ history = <<>>
    /\ outcome = "none"
    /\ replies = <<>>
    /\ procs = [p \in Procs |-> Idle]
    /\ arg = {}
    /\ ret = <<>>

VisibleAdded ==
    \E m \in 1..Len(history), user \in Users, reaction \in VisibleEmoji :
        /\ <<m, user, reaction>> \notin arg
        /\ \E res \in {handle_reaction_added(songs, reactions, reaction, EventTs(m),
                                              history[m], user)} :
               /\ reactions' = res.reactions
               /\ outcome' = res.outcome
               /\ replies' = res.replies
        /\ arg' = arg \cup {<<m, user, reaction>>}
        /\ UNCHANGED <<songs, artists, song_artists, history, procs, ret>>

VisibleRemoved ==
    \E m \in 1..Len(history), user \in Users, reaction \in VisibleEmoji :
        /\ <<m, user, reaction>> \in arg
        /\ \E res \in {handle_reaction_removed(songs, reactions, reaction, EventTs(m),
                                                history[m], user)} :
               /\ reactions' = res.reactions
               /\ outcome' = res.outcome
               /\ replies' = res.replies
        /\ arg' = arg \ {<<m, user, reaction>>}
        /\ UNCHANGED <<songs, artists, song_artists, history, procs, ret>>

NextVisible == ZeroSubmitStep \/ VisibleAdded \/ VisibleRemoved

SpecVisible == InitVisible /\ [][NextVisible]_vars

-----------------------------------------------------------------------------
(* Interleaved handling: reaction_added handlers run concurrently and       *)
(* interleave between their store calls (each store call is a transaction   *)
(* of its own); the events are those of one user rating one track.          *)

RaceReactions == {"one", "keycap_ten"}

\* handler p starts: it runs up to its call of fetch_reaction
AddBegin(p, m, user, reaction) ==
    /\ procs[p].pc = "idle"
    /\ m \in 1..Len(history)
    /\ \E a \in {add_until_fetch_reaction(songs, reaction, EventTs(m), history[m])} :
          IF a.outcome # "continue"
          THEN /\ outcome' = a.outcome
               /\ replies' = a.replies
               /\ procs' = procs
          ELSE /\ procs' = [procs EXCEPT ![p] = [pc |-> "fetch_reaction", m |-> m,
                                                 user |-> user, reaction |-> reaction]]
               /\ UNCHANGED <<outcome, replies>>
    /\ UNCHANGED <<songs, artists, song_artists, reactions, history, arg, ret>>

\* handler p calls fetch_reaction and decides
AddFetchReaction(p) ==
    /\ procs[p].pc = "fetch_reaction"
    /\ \E b \in {add_after_fetch_reaction(
                    fetch_reaction(reactions, history[procs[p].m], procs[p].user),
                    procs[p].reaction)} :
          IF b.outcome # "continue"
          THEN /\ outcome' = b.outcome
               /\ replies' = b.replies
               /\ procs' = [procs EXCEPT ![p] = Idle]
          ELSE /\ procs' = [procs EXCEPT ![p].pc = "insert_reaction"]
               /\ UNCHANGED <<outcome, replies>>
    /\ UNCHANGED <<songs, artists, song_artists, reactions, history, arg, ret>>

\* handler p calls insert_reaction and returns
AddInsertReaction(p) ==
    /\ procs[p].pc = "insert_reaction"
    /\ reactions' = insert_reaction(reactions, history[procs[p].m], procs[p].user,
                                    convert_emoji_to_number(procs[p].reaction))
    /\ outcome' = "Inserted"
    /\ replies' = <<>>
    /\ procs' = [procs EXCEPT ![p] = Idle]
    /\ UNCHANGED <<songs, artists, song_artists, history, arg, ret>>

RaceSubmitStep ==
    \E got_permalink \in BOOLEAN :
        \E track_details \in {<<>>} \cup {<<d>> : d \in BasicDetails("T1")} :
            Submit("T1", "U1", track_details, got_permalink)

AddBeginStep ==
    \E p \in Procs, m \in 1..MaxMsgs, reaction \in RaceReactions :
        AddBegin(p, m, "U2", reaction)

AddFetchReactionStep == \E p \in Procs : AddFetchReaction(p)

AddInsertReactionStep == \E p \in Procs : AddInsertReaction(p)

RaceRemovedStep ==
    \E m \in 1..MaxMsgs, reaction \in RaceReactions : ReactionRemoved(m, "U2", reaction)

NextRace ==
    \/ RaceSubmitStep
    \/ AddBeginStep
    \/ AddFetchReactionStep
    \/ AddInsertReactionStep
    \/ RaceRemovedStep

SpecRace == Init /\ [][NextRace]_vars

-----------------------------------------------------------------------------
(* Interleaved submissions: handlers of messages that share track T1, each   *)
(* with the permalink of its own message, run one store call at a time.  T1  *)
(* is known from an earlier share whose permalink was not obtained.          *)

InitShared ==
    /\ songs = [t \in {"T1"} |-> [title |-> "Name1", album |-> "Album1", user |-> "U1",
                                  message_link |-> NoLink]]
    /\ artists = {[id |-> "A1", name |-> "x"]}
    /\ song_artists = {<<"T1", "A1">>}
    /\ reactions = [pair \in Tracks \X Users |-> <<>>]
    /\ history = <<>>
    /\ outcome = "none"
    /\ replies = <<>>
    /\ procs = [p \in Procs |-> Idle]
    /\ arg = <<>>
    /\ ret = <<>>

\* user shares T1 in a new message; handler p runs up to its call of
\* fetch_songs (track id, track details and permalink obtained)
ShareBegin(p, user) ==
    /\ procs[p].pc = "idle"
    /\ Len(history) < MaxMsgs
    /\ history' = Append(history, "T1")
    /\ procs' = [procs EXCEPT ![p] = [pc |-> "fetch_songs", m |-> Len(history) + 1,
                                       user |-> user, reaction |-> ""]]
    /\ UNCHANGED <<songs, artists, song_artists, reactions, outcome, replies, arg, ret>>

\* handler p calls fetch_songs and decides on the stored link it has read
ShareFetchSongs(p) ==
    /\ procs[p].pc = "fetch_songs"
    /\ \E existing_song \in {fetch_songs(songs, history[procs[p].m])} :
          IF existing_song # <<>> /\ existing_song[1].message_link = NoLink
          THEN /\ procs' = [procs EXCEPT ![p].pc = "update_song_message_link"]
               /\ UNCHANGED replies
          ELSE /\ procs' = [procs EXCEPT ![p].pc = "insert_song_with_artists"]
               /\ replies' = IF existing_song = <<>> THEN <<>>
                              ELSE <<Reply("Track already exists in the database",
                                           existing_song[1].message_link)>>
    /\ UNCHANGED <<songs, artists, song_artists, reactions, history, outcome, arg, ret>>

\* handler p calls update_song_message_link with its permalink and replies
ShareUpdateLink(p) ==
    /\ procs[p].pc = "update_song_message_link"
    /\ songs' = update_song_message_link(songs, history[procs[p].m], Permalink(procs[p].m))
    /\ replies' = <<Reply("Track already exists in the database", Permalink(procs[p].m))>>
    /\ procs' = [procs EXCEPT ![p].pc = "insert_song_with_artists"]
    /\ UNCHANGED <<artists, song_artists, reactions, history, outcome, arg, ret>>

\* handler p calls insert_song_with_artists, replies and returns
ShareInsert(p) ==
    /\ procs[p].pc = "insert_song_with_artists"
    /\ \E d \in BasicDetails(history[procs[p].m]) :
          \E ins \in {insert_song_with_artists(
                          [songs |-> songs, artists |-> artists, song_artists |-> song_artists],
                          d.id, d.name, d.album, d.artists, procs[p].user,
                          Permalink(procs[p].m))} :
              /\ songs' = ins.songs
              /\ artists' = ins.artists
              /\ song_artists' = ins.song_artists
              /\ outcome' = IF ins.ok THEN "Saved" ELSE "StoreError"
              /\ replies' = IF ins.ok THEN <<Reply("Track details saved successfully", NoLink)>>
                             ELSE <<>>
    /\ procs' = [procs EXCEPT ![p] = Idle]
    /\ UNCHANGED <<reactions, history, arg, ret>>

ShareBeginStep == \E p \in Procs, user \in Users : ShareBegin(p, user)

ShareFetchSongsStep == \E p \in Procs : ShareFetchSongs(p)

ShareUpdateLinkStep == \E p \in Procs : ShareUpdateLink(p)

ShareInsertStep == \E p \in Procs : ShareInsert(p)

NextShared ==
    \/ ShareBeginStep
    \/ ShareFetchSongsStep
    \/ ShareUpdateLinkStep
    \/ ShareInsertStep

SpecShared == InitShared /\ [][NextShared]_vars

-----------------------------------------------------------------------------
(* The two timestamp checks as functions of a stored link and an event       *)
(* timestamp string                                                          *)

TsDigits(k) == Remove(EventTs(k), ".")

RECURSIVE DotPositions(_, _)
\* the sets of at most n positions 0..len
DotPositions(n, len) ==
    IF n = 0 THEN {{}}
    ELSE DotPositions(n - 1, len) \cup
         {Q \cup {i} : Q \in DotPositions(n - 1, len), i \in 0..len}

RECURSIVE Dotted(_, _, _)
\* the digits d from position i on, with a "." after every position of P
Dotted(d, P, i) ==
    (IF i \in P THEN <<".">> ELSE <<>>)
        \o (IF i < Len(d) THEN <<d[i + 1]>> \o Dotted(d, P, i + 1) ELSE <<>>)

\* event timestamp strings: the digits of a message timestamp with at most
\* MaxDots decimal points anywhere (Slack's own format has one, after the seconds)
TsStrings ==
    {Dotted(TsDigits(k), P, 0) :
        k \in 1..MaxMsgs, P \in DotPositions(MaxDots, Len(TsDigits(1)))}

InitTs ==
    /\ songs = <<>>
    /\ artists = {}
    /\ song_artists = {}
    /\ reactions = [pair \in Tracks \X Users |-> <<>>]
    /\ history = <<>>
    /\ outcome = "none"
    /\ replies = <<>>
    /\ procs = [p \in Procs |-> Idle]
    /\ arg \in {[link |-> Permalink(k), ts |-> ts] : k \in 1..MaxMsgs, ts \in TsStrings}
    /\ ret = <<>>

CheckTimestamp ==
    /\ ret = <<>>
    /\ ret' = <<[added |-> AddTsMatches(arg.ts, arg.link),
                 removed |-> RemoveTsMatches(arg.ts, arg.link)]>>
    /\ UNCHANGED <<songs, artists, song_artists, reactions, history, outcome, replies,
                   procs, arg>>

NextTs == CheckTimestamp

SpecTs == InitTs /\ [][NextTs]_vars

-----------------------------------------------------------------------------
(* Properties *)

Messages == 1..Len(history)

\* the handlers' results for an event on message m in the current state
Added(m, user, reaction) ==
    handle_reaction_added(songs, reactions, reaction, EventTs(m), history[m], user)

Removed(m, user, reaction) ==
    handle_reaction_removed(songs, reactions, reaction, EventTs(m), history[m], user)

Stored(t) == t \in DOMAIN songs

HasLink(t) == Stored(t) /\ songs[t].message_link # NoLink

\* message m shows track t and is the message t's stored link points to
Canonical(m, t) == history[m] = t /\ Stored(t) /\ songs[t].message_link = Permalink(m)

\* message m shows track t, whose stored link points to another message
ReShare(m, t) == history[m] = t /\ HasLink(t) /\ songs[t].message_link # Permalink(m)

\* C1: under atomic handling of submissions, reaction_added and
\* reaction_removed events, the reactions table never holds more than one row
\* for a (song_id, user) pair.
C1_OneRowPerPair == \A pair \in Tracks \X Users : Len(reactions[pair]) <= 1

\* a second rating was attempted while a row was stored
C1_Witness ==
    /\ outcome = "DuplicateRating"
    /\ \E pair \in Tracks \X Users : Len(reactions[pair]) = 1

\* C3: once a track's message_link is non-null no handler changes it: not a
\* later submission of the track with a permalink, nor one without.
C3_LinkNeverOverwritten ==
    [][\A t \in DOMAIN songs :
          songs[t].message_link # NoLink
              => t \in DOMAIN songs' /\ songs'[t].message_link = songs[t].message_link]_vars

\* the track of message 1 was submitted again in message 2, with a permalink,
\* and still points to message 1
C3_Witness ==
    /\ Len(history) = 2
    /\ history[1] = history[2]
    /\ Canonical(1, history[1])
    /\ replies # <<>>
    /\ replies[1] = Reply("Track already exists in the database", Permalink(1))

\* C4 as claimed: every reaction_added and reaction_removed event, whatever its
\* emoji, on a message other than the one the track's link points to ends as
\* WrongMessage and leaves the reactions table unchanged.
C4_AnyEmojiWrongMessage ==
    \A m \in Messages, user \in Users, reaction \in EventReactions :
        (\E t \in Tracks : ReShare(m, t))
            => LET a == Added(m, user, reaction)
                   r == Removed(m, user, reaction)
               IN  /\ a.outcome = "WrongMessage"
                   /\ r.outcome = "WrongMessage"
                   /\ a.reactions = reactions
                   /\ r.reactions = reactions

\* C4 (amended): an event on a message other than the one the track's link
\* points to leaves the reactions table unchanged whatever its emoji, and ends
\* as WrongMessage when its emoji is one of the eleven admitted ones.
C4_WrongMessage ==
    \A m \in Messages, user \in Users, reaction \in EventReactions :
        (\E t \in Tracks : ReShare(m, t))
            => LET a == Added(m, user, reaction)
                   r == Removed(m, user, reaction)
               IN  /\ a.reactions = reactions
                   /\ r.reactions = reactions
                   /\ reaction \in AdmittedReactions
                        => a.outcome = "WrongMessage" /\ r.outcome = "WrongMessage"

\* a rated track was shared again and an event on the second message refused
C4_Witness ==
    /\ outcome = "WrongMessage"
    /\ \E t \in Tracks : ReShare(2, t) /\ \E u \in Users : reactions[<<t, u>>] # <<>>

\* the outcome C6 claims for a reaction_added event on a message showing a track
ClaimedAddOutcome(m, user, reaction) ==
    LET t == history[m] IN
    IF ~Stored(t) THEN "UnknownTrack"
    ELSE IF ~HasLink(t) THEN "NoCanonicalMessage"
    ELSE IF songs[t].message_link # Permalink(m) THEN "WrongMessage"
    ELSE IF convert_emoji_to_number(reaction) = 0 THEN "NotARating"
    ELSE IF reactions[<<t, user>>] # <<>> THEN "DuplicateRating"
    ELSE "Inserted"

\* C6 as claimed, for the admitted emoji: reaction_added ends at the first
\* failing precondition in the order track exists, link stored, timestamp
\* matches, emoji decodes to a rating, no reaction stored; an emoji that is
\* no rating is ignored without a reply.
C6_PreconditionOrder ==
    \A m \in Messages, user \in Users, reaction \in EventReactions \cap AdmittedReactions :
        history[m] \in Tracks
            => LET a == Added(m, user, reaction)
               IN  /\ a.outcome = ClaimedAddOutcome(m, user, reaction)
                   /\ a.outcome = "NotARating" => a.replies = <<>>

\* C7: while a reaction row is stored for (track, user), a reaction_added event
\* of that user on the track's canonical message, with any admitted emoji,
\* ends as DuplicateRating and leaves the table, and so the stored value, as
\* it was.
C7_DuplicateRating ==
    \A m \in Messages, user \in Users, reaction \in EventReactions \cap AdmittedReactions :
        \A t \in Tracks :
            Canonical(m, t) /\ reactions[<<t, user>>] # <<>>
                => LET a == Added(m, user, reaction)
                   IN  a.outcome = "DuplicateRating" /\ a.reactions = reactions

\* a second rating was refused and the stored row still holds a rating
C7_Witness ==
    /\ outcome = "DuplicateRating"
    /\ \E m \in Messages, t \in Tracks, u \in Users :
          Canonical(m, t) /\ Len(reactions[<<t, u>>]) = 1 /\ reactions[<<t, u>>][1] \in 1..10

\* C8: a reaction_removed event on the canonical message deletes the rows of
\* (track, user) when a row is stored and its value is the decoded value of
\* the removed emoji, and otherwise leaves the reactions table unchanged.
C8_RemoveIffMatch ==
    \A m \in Messages, user \in Users, reaction \in EventReactions :
        \A t \in Tracks :
            Canonical(m, t)
                => Removed(m, user, reaction).reactions =
                       IF /\ reactions[<<t, user>>] # <<>>
                          /\ Head(reactions[<<t, user>>]) = convert_emoji_to_number(reaction)
                       THEN [reactions EXCEPT ![<<t, user>>] = <<>>]
                       ELSE reactions

\* a removal with another emoji than the stored rating was ignored
C8_Witness ==
    /\ outcome = "ReactionMismatch"
    /\ \E m \in Messages, t \in Tracks, u \in Users :
          Canonical(m, t) /\ reactions[<<t, u>>] # <<>>

C10_Backfill ==
    Len(history) < MaxMsgs =>
        \A t \in Tracks, user \in Users, got_permalink \in BOOLEAN :
            \A d \in ChangingDetails(t) :
                Stored(t) /\ ~HasLink(t) =>
                    LET link == IF got_permalink THEN Permalink(Len(history) + 1) ELSE NoLink
                        res == handle_spotify_track_message(
                                   [songs |-> songs, artists |-> artists,
                                    song_artists |-> song_artists],
                                   t, user, <<d>>, link)
                    IN  /\ t \in DOMAIN res.songs
                        /\ res.songs[t] = [songs[t] EXCEPT !.message_link = link]
                        /\ ~got_permalink => res.outcome = "Saved"

\* the tables of the store the submission handler works on
Db == [songs |-> songs, artists |-> artists, song_artists |-> song_artists]

\* the submission handler's result for a message showing track t, posted next
Submitted(t, user, track_details, got_permalink) ==
    handle_spotify_track_message(
        Db, t, user, track_details,
        IF got_permalink THEN Permalink(Len(history) + 1) ELSE NoLink)

\* C11 as claimed: a submission of a track stored with a message_link leaves
\* the songs, artists and song_artists tables as they were, whatever
\* metadata the provider returns (the handler has no access to reactions).
C11_ResubmissionNoMutation ==
    Len(history) < MaxMsgs =>
        \A t \in Tracks, user \in Users, got_permalink \in BOOLEAN :
            \A d \in ChangingDetails(t) :
                HasLink(t) =>
                    LET res == Submitted(t, user, <<d>>, got_permalink)
                    IN  /\ res.songs = songs
                        /\ res.artists = artists
                        /\ res.song_artists = song_artists

\* C12 as claimed: a submission whose metadata was fetched gets exactly one
\* reply: "Track already exists" when the track was stored, "Track details
\* saved successfully" when it was not.
C12_ExactlyOneReply ==
    Len(history) < MaxMsgs =>
        \A t \in Tracks, user \in Users, got_permalink \in BOOLEAN :
            \A d \in ChangingDetails(t) :
                LET res == Submitted(t, user, <<d>>, got_permalink)
                IN  /\ Len(res.replies) = 1
                    /\ res.replies[1].text =
                           IF Stored(t) THEN "Track already exists in the database"
                           ELSE "Track details saved successfully"

\* C13: when fetch_track_details returns None the submission handler tells the
\* user so and changes no table.
C13_FetchFailedNoMutation ==
    [][outcome' = "FetchFailed"
          => /\ replies' = <<Reply("Could not fetch track details", NoLink)>>
             /\ UNCHANGED <<songs, artists, song_artists, reactions>>]_vars

\* a fetch failed for a submission while tracks and ratings were stored
C13_Witness ==
    /\ outcome = "FetchFailed"
    /\ songs # <<>>
    /\ \E pair \in Tracks \X Users : reactions[pair] # <<>>

\* C14: a rating is changed by removing it and adding the new one: from a
\* stored reaction of value v1 on the canonical message, reaction_removed with
\* v1's emoji followed by reaction_added with v2's emoji leaves exactly one row
\* for (track, user), holding v2, for all v1 and v2; and no single event
\* changes the value of a stored row (rows are kept, deleted or appended).
C14_RemoveThenAdd ==
    /\ [](\A m \in Messages, user \in Users, r1 \in RatingSymbols, r2 \in RatingSymbols :
            \A t \in Tracks :
                Canonical(m, t) /\ reactions[<<t, user>>] = <<emoji_to_number[r1]>>
                    => LET rem == Removed(m, user, r1)
                           add == handle_reaction_added(songs, rem.reactions, r2, EventTs(m),
                                                        history[m], user)
                       IN  /\ rem.outcome = "Removed"
                           /\ add.outcome = "Inserted"
                           /\ add.reactions =
                                  [reactions EXCEPT ![<<t, user>>] = <<emoji_to_number[r2]>>])
    /\ [][\A pair \in Tracks \X Users :
              \/ reactions'[pair] = <<>>
              \/ /\ Len(reactions'[pair]) >= Len(reactions[pair])
                 /\ SubSeq(reactions'[pair], 1, Len(reactions[pair])) = reactions[pair]]_vars

\* a rating was inserted on the canonical message of a track that both users
\* now rate, with different values
C14_Witness ==
    /\ outcome = "Inserted"
    /\ \E m \in Messages, t \in Tracks :
          /\ Canonical(m, t)
          /\ \A u \in Users : Len(reactions[<<t, u>>]) = 1
          /\ \E u1 \in Users, u2 \in Users : reactions[<<t, u1>>] # reactions[<<t, u2>>]

\* the number, and the sum, of the ratings stored for track t
RatingCount(t) == reaction_count(reactions, {k \in DOMAIN reactions : k[1] = t})

RatingSum(t) == reaction_sum(reactions, {k \in DOMAIN reactions : k[1] = t})

\* track t has an artist recorded
HasArtist(t) == \E a \in artists : <<t, a.id>> \in song_artists

\* track t ranks strictly above track u: by mean rating (0 without ratings),
\* then by number of ratings
RanksAbove(t, u) ==
    LET mt == IF RatingCount(t) = 0 THEN <<0, 1>> ELSE <<RatingSum(t), RatingCount(t)>>
        mu == IF RatingCount(u) = 0 THEN <<0, 1>> ELSE <<RatingSum(u), RatingCount(u)>>
    IN  \/ mt[1] * mu[2] > mu[1] * mt[2]
        \/ mt[1] * mu[2] = mu[1] * mt[2] /\ RatingCount(t) > RatingCount(u)

\* C16: get_top_songs(limit) returns at most limit tracks, each stored with at
\* least one artist and reported with its number of ratings and its mean
\* (0 without ratings), in descending order of mean and then of count, and
\* none of the tracks left out ranks above one returned; tracks without
\* artists are left out, tracks without ratings are not.  With A (mean 9,
\* count 3), B (mean 9, count 5) and C (mean 4, count 1, no artists), limit 2
\* returns [B, A].
C16_TopSongs ==
    ret # <<>> =>
        LET q == ret[1]
            ids == {q[i].id : i \in 1..Len(q)}
            qualified == {t \in DOMAIN songs : HasArtist(t)}
        IN  /\ Len(q) <= arg.limit
            /\ Len(q) = IF Cardinality(qualified) < arg.limit
                        THEN Cardinality(qualified) ELSE arg.limit
            /\ Cardinality(ids) = Len(q)
            /\ ids \subseteq qualified
            /\ \A i \in 1..Len(q) :
                  /\ q[i].reaction_count = RatingCount(q[i].id)
                  /\ q[i].average_reaction.num * RatingCount(q[i].id)
                        = RatingSum(q[i].id) * q[i].average_reaction.den
                  /\ RatingCount(q[i].id) = 0 => q[i].average_reaction.num = 0
            /\ \A i \in 1..Len(q), j \in 1..Len(q) : i < j => ~RanksAbove(q[j].id, q[i].id)
            /\ \A t \in qualified \ ids : \A i \in 1..Len(q) : ~RanksAbove(t, q[i].id)
            /\ DOMAIN songs = {"A", "B", "C"} /\ arg.limit = 2
                  => q[1].id = "B" /\ q[2].id = "A"

\* the top two of the example tracks A, B and C were queried
C16_Witness ==
    /\ ret # <<>>
    /\ DOMAIN songs = {"A", "B", "C"}
    /\ arg.limit = 2
    /\ Len(ret[1]) = 2

\* the row of track t in a result of get_top_songs holds count n and mean v
ShowsTrack(q, t, v, n) ==
    \E i \in 1..Len(q) :
        /\ q[i].id = t
        /\ q[i].reaction_count = n
        /\ q[i].average_reaction.num = v * q[i].average_reaction.den

\* C15: end to end.  Submitting a track X that is not stored, with its
\* permalink obtained, stores X with that permalink as message_link; then
\* reaction_added "five" by another user B on that message stores 5 for
\* (X, B) and get_top_songs lists X with mean 5 and count 1; then
\* reaction_removed "five" by B on that message deletes the row and
\* get_top_songs lists X with count 0.  When X is the only track of the
\* store, get_top_songs(1) returns just that row.
C15_EndToEnd ==
    Len(history) < MaxMsgs =>
        \A X \in Tracks, A \in Users, B \in Users : \A d \in BasicDetails(X) :
            ~Stored(X) /\ A # B =>
                LET m == Len(history) + 1
                    sub == Submitted(X, A, <<d>>, TRUE)
                    db1 == [songs |-> sub.songs, artists |-> sub.artists,
                            song_artists |-> sub.song_artists]
                    add == handle_reaction_added(sub.songs, reactions, "five", EventTs(m), X, B)
                    rem == handle_reaction_removed(sub.songs, add.reactions, "five",
                                                   EventTs(m), X, B)
                    all == Cardinality(DOMAIN sub.songs)
                IN  /\ sub.outcome = "Saved"
                    /\ sub.songs[X].message_link = Permalink(m)
                    /\ add.outcome = "Inserted"
                    /\ add.reactions = [reactions EXCEPT ![<<X, B>>] = <<5>>]
                    /\ \A q \in get_top_songs(db1, add.reactions, all) : ShowsTrack(q, X, 5, 1)
                    /\ rem.outcome = "Removed"
                    /\ rem.reactions = reactions
                    /\ \A q \in get_top_songs(db1, rem.reactions, all) : ShowsTrack(q, X, 0, 0)
                    /\ songs = <<>> =>
                          /\ \A q \in get_top_songs(db1, add.reactions, 1) :
                                Len(q) = 1 /\ ShowsTrack(q, X, 5, 1)
                          /\ \A q \in get_top_songs(db1, rem.reactions, 1) :
                                Len(q) = 1 /\ ShowsTrack(q, X, 0, 0)

\* the only stored track was submitted with its permalink, rated and unrated
\* again, and get_top_songs(1) shows it without ratings
C15_Witness ==
    /\ outcome = "Removed"
    /\ \E X \in Tracks :
          /\ DOMAIN songs = {X}
          /\ Canonical(1, X)
          /\ \A k \in DOMAIN reactions : reactions[k] = <<>>
          /\ \A q \in get_top_songs(Db, reactions, 1) : Len(q) = 1 /\ ShowsTrack(q, X, 0, 0)

\* C17: get_unrated_songs(U) returns one row for each stored track that has
\* no reaction row by U and was not submitted by U, and no other row; a track
\* U submitted is left out also when U has not rated it.
C17_Unrated ==
    ret # <<>> =>
        /\ {r.id : r \in ret[1]} =
               {t \in DOMAIN songs :
                   reactions[<<t, arg.user_id>>] = <<>> /\ songs[t].user # arg.user_id}
        /\ Cardinality(ret[1]) = Cardinality({r.id : r \in ret[1]})

\* the query returned a track while leaving out one that the user submitted
\* and has not rated
C17_Witness ==
    /\ ret # <<>>
    /\ ret[1] # {}
    /\ \E t \in DOMAIN songs :
          /\ songs[t].user = arg.user_id
          /\ reactions[<<t, arg.user_id>>] = <<>>

\* the tracks submitted by others than user U, and those of them U has rated
SubmittedByOthers(U) == {t \in DOMAIN songs : songs[t].user # U}

RatedByUser(U) == {t \in SubmittedByOthers(U) : reactions[<<t, U>>] # <<>>}

\* C18: get_user_statistics(U) yields a result in every store, with every
\* quotient defined: avg_rating_given is 0 when U has given no rating,
\* avg_rating_received is 0 when the tracks U submitted have no reactions,
\* and rating_percentage is 100 * (tracks of others U has rated) / (tracks
\* of others), 0 when there is no track of others.
C18_UserStatistics ==
    ret # <<>> =>
        LET st == ret[1]
            U == arg.user_id
        IN  /\ st.avg_rating_given.den > 0
            /\ st.avg_rating_received.den > 0
            /\ st.rating_percentage.den > 0
            /\ (\A t \in Tracks : reactions[<<t, U>>] = <<>>) => st.avg_rating_given.num = 0
            /\ (\A t \in DOMAIN songs, u \in Users :
                    songs[t].user = U => reactions[<<t, u>>] = <<>>)
                  => st.avg_rating_received.num = 0
            /\ st.rating_percentage.num * Cardinality(SubmittedByOthers(U))
                  = 100 * Cardinality(RatedByUser(U)) * st.rating_percentage.den
            /\ SubmittedByOthers(U) = {} => st.rating_percentage.num = 0

\* statistics were computed for a user who has given no rating and for whom
\* no track of another user is stored, while the store holds a track
C18_Witness ==
    /\ ret # <<>>
    /\ songs # <<>>
    /\ SubmittedByOthers(arg.user_id) = {}
    /\ \A t \in Tracks : reactions[<<t, arg.user_id>>] = <<>>

\* the tracks user U submitted that have a rating
RatedSongsOf(U) == {t \in DOMAIN songs : songs[t].user = U /\ RatingCount(t) > 0}

\* the tracks of U recorded with the artist named n, the keys of their
\* reactions rows, and the artist names recorded with a track of U
ArtistSongs(U, n) ==
    {t \in DOMAIN songs :
        songs[t].user = U /\ \E a \in artists : a.name = n /\ <<t, a.id>> \in song_artists}

ArtistRatingKeys(U, n) == {k \in DOMAIN reactions : k[1] \in ArtistSongs(U, n)}

ArtistsOfUser(U) == {a.name : a \in {b \in artists : ArtistSongs(U, b.name) # {}}}

\* the mean rating (sum, count) of the artist named n over the tracks of U
ArtistMean(U, n) ==
    IF reaction_count(reactions, ArtistRatingKeys(U, n)) = 0 THEN <<0, 1>>
    ELSE <<reaction_sum(reactions, ArtistRatingKeys(U, n)),
           reaction_count(reactions, ArtistRatingKeys(U, n))>>

\* artist n ranks strictly above artist o by the rule of get_top_songs: mean
\* rating, then number of ratings
ArtistAboveByRating(U, n, o) ==
    LET mn == ArtistMean(U, n)
        mo == ArtistMean(U, o)
    IN  \/ mn[1] * mo[2] > mo[1] * mn[2]
        \/ /\ mn[1] * mo[2] = mo[1] * mn[2]
           /\ reaction_count(reactions, ArtistRatingKeys(U, n))
                > reaction_count(reactions, ArtistRatingKeys(U, o))

\* artist n ranks strictly above artist o by number of tracks of U, then by
\* mean rating
ArtistAboveBySongs(U, n, o) ==
    LET mn == ArtistMean(U, n)
        mo == ArtistMean(U, o)
    IN  \/ Cardinality(ArtistSongs(U, n)) > Cardinality(ArtistSongs(U, o))
        \/ /\ Cardinality(ArtistSongs(U, n)) = Cardinality(ArtistSongs(U, o))
           /\ mn[1] * mo[2] > mo[1] * mn[2]

\* a result q of get_user_top_songs(U, limit): the tracks U submitted that
\* have a rating, ranked by mean and then by count, cut at limit
UserTopSongsRanked(q, U, limit) ==
    LET titles == {q[i].title : i \in 1..Len(q)}
    IN  /\ Len(q) = IF Cardinality(RatedSongsOf(U)) < limit
                    THEN Cardinality(RatedSongsOf(U)) ELSE limit
        /\ Cardinality(titles) = Len(q)
        /\ titles \subseteq RatedSongsOf(U)
        /\ \A i \in 1..Len(q) :
              /\ q[i].reaction_count = RatingCount(q[i].title)
              /\ q[i].average_rating.num * RatingCount(q[i].title)
                    = RatingSum(q[i].title) * q[i].average_rating.den
        /\ \A i \in 1..Len(q), j \in 1..Len(q) : i < j => ~RanksAbove(q[j].title, q[i].title)
        /\ \A t \in RatedSongsOf(U) \ titles : \A i \in 1..Len(q) : ~RanksAbove(t, q[i].title)

\* C19 as claimed: get_user_top_songs and get_user_top_artists both rank by
\* mean rating and then by number of ratings, over the submissions of U, and
\* both return only entries that have a rating.
C19_SameRankingRule ==
    ret # <<>> =>
        LET q == ret[1]
            U == arg.user_id
        IN  IF arg.query = "songs" THEN UserTopSongsRanked(q, U, arg.limit)
            ELSE /\ \A i \in 1..Len(q) :
                       /\ q[i].name \in ArtistsOfUser(U)
                       /\ reaction_count(reactions, ArtistRatingKeys(U, q[i].name)) > 0
                 /\ \A i \in 1..Len(q), j \in 1..Len(q) :
                       i < j => ~ArtistAboveByRating(U, q[j].name, q[i].name)

\* C19 (amended): get_user_top_songs(U, limit) ranks the tracks U submitted
\* that have a rating by the rule of get_top_songs; get_user_top_artists(U,
\* limit) returns the artists recorded with a track U submitted, whether
\* rated or not (mean 0), ranked by their number of such tracks and then by
\* their mean rating; both return at most limit entries.
C19_UserTop ==
    ret # <<>> =>
        LET q == ret[1]
            U == arg.user_id
            names == {q[i].name : i \in 1..Len(q)}
        IN  IF arg.query = "songs" THEN UserTopSongsRanked(q, U, arg.limit)
            ELSE /\ Len(q) = IF Cardinality(ArtistsOfUser(U)) < arg.limit
                             THEN Cardinality(ArtistsOfUser(U)) ELSE arg.limit
                 /\ Cardinality(names) = Len(q)
                 /\ names \subseteq ArtistsOfUser(U)
                 /\ \A i \in 1..Len(q) :
                       /\ q[i].song_count = Cardinality(ArtistSongs(U, q[i].name))
                       /\ q[i].average_rating.num * ArtistMean(U, q[i].name)[2]
                             = ArtistMean(U, q[i].name)[1] * q[i].average_rating.den
                 /\ \A i \in 1..Len(q), j \in 1..Len(q) :
                       i < j => ~ArtistAboveBySongs(U, q[j].name, q[i].name)
                 /\ \A n \in ArtistsOfUser(U) \ names : \A i \in 1..Len(q) :
                       ~ArtistAboveBySongs(U, n, q[i].name)

\* the artists of a user were ranked: first the one with more tracks and the
\* lower mean rating, then one with fewer tracks and the higher mean
C19_Witness ==
    /\ ret # <<>>
    /\ arg.query = "artists"
    /\ Len(ret[1]) = 2
    /\ ret[1][1].song_count > ret[1][2].song_count
    /\ avg_greater(ret[1][2].average_rating, ret[1][1].average_rating)

\* C20 as claimed: each of the eleven symbols "one" .. "ten" and "keycap_ten"
\* maps to its number in 1..10, every number in 1..10 is the image of one of
\* them, and every other symbol maps to 0.
C20_ElevenSymbols ==
    ret # <<>> =>
        /\ \A i \in 1..10 : arg.emoji = NumberNames[i] => ret[1] = i
        /\ arg.emoji = "keycap_ten" => ret[1] = 10
        /\ arg.emoji \notin {NumberNames[i] : i \in 1..10} \cup {"keycap_ten"} => ret[1] = 0
        /\ \A n \in 1..10 : \E e \in Symbols : convert_emoji_to_number(e) = n

\* C20 (amended): each of the ten symbols "one" .. "nine" and "keycap_ten"
\* maps to its number in 1..10, every number in 1..10 is the image of one of
\* them, and every other symbol, "ten", "zero" and the empty string
\* included, maps to 0; a result is given for every symbol.
C20_TenSymbols ==
    ret # <<>> =>
        /\ \A i \in 1..9 : arg.emoji = NumberNames[i] => ret[1] = i
        /\ arg.emoji = "keycap_ten" => ret[1] = 10
        /\ arg.emoji \notin {NumberNames[i] : i \in 1..9} \cup {"keycap_ten"} => ret[1] = 0
        /\ \A n \in 1..10 : \E e \in Symbols : convert_emoji_to_number(e) = n

\* the symbol "ten" was converted
C20_Witness == ret = <<0>> /\ arg.emoji = "ten"

\* C21: every stored reaction row holds a value in 1..10, and an event whose
\* emoji decodes to 0, the admitted "zero" included, leaves the reactions
\* table as it was on the add path and on the remove path.
C21_RatingsOnly ==
    /\ \A k \in DOMAIN reactions : \A i \in 1..Len(reactions[k]) : reactions[k][i] \in 1..10
    /\ \A m \in Messages, user \in Users, reaction \in ZeroReactions :
          convert_emoji_to_number(reaction) = 0
              => /\ Added(m, user, reaction).reactions = reactions
                 /\ Removed(m, user, reaction).reactions = reactions

\* an event with an admitted emoji that is no rating was ignored on the
\* canonical message of a rated track
C21_Witness ==
    /\ outcome = "NotARating"
    /\ \E m \in Messages, t \in Tracks, u \in Users :
          Canonical(m, t) /\ reactions[<<t, u>>] # <<>>

\* C22 as claimed: is_valid_spotify_id(s) is true exactly when the string s
\* has 22 characters, all of them in [a-zA-Z0-9]; a string of another
\* length, such as a 22-character identifier followed by a newline, gives
\* false.
C22_ExactlyTwentyTwoAlnum ==
    ret # <<>> /\ arg.kind = "str" =>
        /\ ~ret[1].raised
        /\ ret[1].value <=> (Len(arg.chars) = 22 /\ \A i \in 1..Len(arg.chars) : arg.chars[i] \in Alnum)

\* C23 as claimed: is_valid_spotify_id returns False, and raises nothing, for
\* an argument that is no string (None, an integer).
C23_TotalOnNonStrings ==
    ret # <<>> /\ arg.kind # "str" => ~ret[1].raised /\ ~ret[1].value

\* the places of a text where 'https://open.spotify.com/track/<id>' occurs
\* with an identifier of at least one alphanumeric character
LinkPlaces(text) ==
    {p \in 1..Len(text) :
        /\ p + 31 <= Len(text)
        /\ SubSeq(text, p, p + 30) = TrackUrl
        /\ text[p + 31] \in Alnum}

\* the alphanumeric characters that follow the link prefix at place p, up to
\* the first other character or the end of the text
IdentifierAt(text, p) ==
    LET rest == SubSeq(text, p + 31, Len(text))
        stops == {i \in 1..Len(rest) : rest[i] \notin Alnum}
    IN  IF stops = {} THEN rest ELSE SubSeq(rest, 1, Min(stops) - 1)

\* C24: extract_spotify_track_id(text) is None when the text holds no track
\* link, and otherwise the identifier (the maximal alphanumeric run, of any
\* length) of the first track link of the text; extracting from the link
\* built from a returned identifier gives that identifier again.
C24_FirstLink ==
    ret # <<>> =>
        /\ LinkPlaces(arg) = {} => ret[1] = <<>>
        /\ LinkPlaces(arg) # {} =>
              /\ ret[1] = <<IdentifierAt(arg, Min(LinkPlaces(arg)))>>
              /\ extract_spotify_track_id(TrackUrl \o ret[1][1]) = ret[1]

\* C24 witness: a text with two links with different identifiers, the first
\* of them returned
C24_Witness ==
    /\ ret # <<>> /\ ret[1] # <<>>
    /\ \E p, q \in LinkPlaces(arg) :
          /\ p < q /\ IdentifierAt(arg, p) # IdentifierAt(arg, q)
          /\ ret[1][1] = IdentifierAt(arg, p)

\* the whitespace-separated tokens of the parsed text
Tokens == split(arg)

\* the tokens '--k', by their place in the text
FlagPlaces ==
    {i \in 1..Len(Tokens) : Len(Tokens[i]) >= 2 /\ SubSeq(Tokens[i], 1, 2) = <<"-", "-">>}

\* what the token at place i asks for: the next token when there is one that
\* does not start with '--', True otherwise
AskedAt(i) ==
    IF i < Len(Tokens) /\ i + 1 \notin FlagPlaces THEN Str(Tokens[i + 1]) ELSE PyTrue

\* no later token '--k' has the key of the token at place i
LastOfItsKey(i) == \A j \in FlagPlaces : j > i => KeyOf(Tokens[j]) # KeyOf(Tokens[i])

\* C25 as claimed: every token '--k' maps k to the next token when one exists
\* and does not start with '--', and to True otherwise.
C25_EveryFlagToken ==
    ret # <<>> => \A i \in FlagPlaces : ret[1][KeyOf(Tokens[i])] = AskedAt(i)

\* C25 amended: the mapping always contains 'public', False unless a token
\* '--public' is given; every token '--k' that no later token '--k' follows
\* maps k to the next token when one exists and does not start with '--',
\* and to True otherwise; the keys are 'public' and the k of the tokens
\* '--k', so unknown flags are kept and no other token becomes a key.
C25_LastFlagToken ==
    ret # <<>> =>
        /\ KeyPublic \in DOMAIN ret[1]
        /\ (\A i \in FlagPlaces : KeyOf(Tokens[i]) # KeyPublic) => ret[1][KeyPublic] = PyFalse
        /\ \A i \in FlagPlaces : LastOfItsKey(i) => ret[1][KeyOf(Tokens[i])] = AskedAt(i)
        /\ DOMAIN ret[1] = {KeyPublic} \cup {KeyOf(Tokens[i]) : i \in FlagPlaces}

\* C25 witness: a flag given twice, first with a value and then bare, parsed
\* to True
C25_Witness ==
    /\ ret # <<>>
    /\ \E i, j \in FlagPlaces :
          /\ i < j /\ KeyOf(Tokens[i]) = KeyOf(Tokens[j])
          /\ AskedAt(i) # PyTrue /\ AskedAt(j) = PyTrue
          /\ ret[1][KeyOf(Tokens[j])] = PyTrue

\* the options of --user, --song, --artist that the command text supplies
SuppliedOptions ==
    {key \in {KeyUser, KeySong, KeyArtist} :
        \E i \in 1..Len(split(history)) : split(history)[i] = <<"-", "-">> \o key}

\* C26 as claimed: when the number of the options --user, --song, --artist
\* supplied is not exactly one, /stats replies 'specify exactly one' and makes
\* no store query; when exactly one is supplied, with or without a value, the
\* handler completes without raising.
C26_ExactlyOneOption ==
    ret # <<>> =>
        /\ Cardinality(SuppliedOptions) # 1 =>
              /\ ~ret[1].raised
              /\ ret[1].replies = <<Respond("SpecifyExactlyOne")>>
              /\ ret[1].queries = <<>>
        /\ Cardinality(SuppliedOptions) = 1 => ~ret[1].raised

\* the fields that the template names
NamedFields == {history[i].field : i \in {j \in 1..Len(history) : history[j].field # <<>>}}

\* the template with every field replaced by its value
Substituted ==
    Concat([i \in 1..Len(history) |->
               IF history[i].field = <<>> THEN history[i].text
               ELSE IF history[i].spec = <<>> THEN arg[history[i].field].chars
               ELSE arg[history[i].field].chars \o <<".", "0">>])

C28_AllOrNothing ==
    \A t \in Tracks, user \in Users, link \in {NoLink, Permalink(1)} :
        \A d \in ChangingDetails(t) :
            LET res == insert_song_with_artists(Db, t, d.name, d.album, d.artists, user, link)
            IN  IF res.ok
                THEN /\ t \in DOMAIN res.songs
                     /\ \A i \in 1..Len(d.artists) :
                           /\ \E row \in res.artists : row.id = d.artists[i].id
                           /\ <<t, d.artists[i].id>> \in res.song_artists
                ELSE /\ res.songs = songs
                     /\ res.artists = artists
                     /\ res.song_artists = song_artists

\* C28 witness: the submission of a track that is not stored has failed at its
\* second artist, and neither the track nor its first artist is stored
C28_Witness ==
    /\ outcome = "StoreError"
    /\ history # <<>> /\ history[Len(history)] = "T2"
    /\ "T2" \notin DOMAIN songs
    /\ ~\E row \in artists : row.id = "A2"

C30_Leaderboard ==
    ret # <<>> =>
        /\ ~ret[1].raised
        /\ \/ ret[1].replies = <<Respond("InvalidCount")>> /\ ret[1].queries = <<>>
           \/ /\ Len(ret[1].queries) = 1
              /\ ret[1].queries[1].call = "get_top_songs"
              /\ ret[1].queries[1].limit > 0
              /\ (\A i \in 1..Len(split(history)) :
                      split(history)[i] # <<"-", "-">> \o KeyCount)
                    => ret[1].queries[1].limit = 10

\* C31 as claimed: whenever the 'Track already exists' reply is sent for a
\* track stored with a message_link, the reply carries that stored link,
\* whether or not a permalink for the re-sharing message was obtained.
C31_ExistsReplyLinksOriginal ==
    Len(history) < MaxMsgs =>
        \A t \in Tracks, user \in Users, got_permalink \in BOOLEAN :
            \A d \in BasicDetails(t) :
                HasLink(t) =>
                    LET res == Submitted(t, user, <<d>>, got_permalink)
                    IN  \A i \in 1..Len(res.replies) :
                            res.replies[i].text = "Track already exists in the database"
                                => res.replies[i].link = songs[t].message_link

\* C32: in every state reached by atomically handled submissions, reaction
\* events and delete_song calls, every reactions row is of a track that is
\* stored, with a message_link.
C32_RatedTracksHaveLink ==
    \A k \in DOMAIN reactions : reactions[k] # <<>> => HasLink(k[1])

\* C32 witness: T1 was submitted and has been deleted, and T2 still has a rating
C32_Witness ==
    /\ outcome = "Deleted" /\ arg.song_id = "T1"
    /\ history # <<>> /\ history[1] = "T1"
    /\ "T1" \notin DOMAIN songs
    /\ \E u \in Users : reactions[<<"T2", u>>] # <<>>

\* C33 as claimed: when every addition and removal of a rating emoji on the
\* canonical message of a track is delivered and handled, a user who has
\* exactly one rating emoji on that message has a reactions row for the
\* track with that emoji's value.
C33_StoreTracksVisible ==
    \A m \in Messages, t \in Tracks, u \in Users, e \in VisibleEmoji :
        Canonical(m, t) /\ {x \in VisibleEmoji : <<m, u, x>> \in arg} = {e}
            => \E i \in 1..Len(reactions[<<t, u>>]) :
                   reactions[<<t, u>>][i] = emoji_to_number[e]

\* C34 as claimed: when submission handlers for a known track without a
\* message_link, each with its own permalink, interleave between fetch_songs
\* and update_song_message_link, the message_link, once set, never changes
\* to another value.
C34_LinkNeverOverwritten ==
    [][\A t \in DOMAIN songs :
          songs[t].message_link # NoLink /\ t \in DOMAIN songs'
              => songs'[t].message_link = songs[t].message_link]_vars

\* C35: get_user_statistics(U) gives 0 <= songs_rated <= total_rateable_songs,
\* 0 <= rating_percentage <= 100 and songs_rated <= ratings_given, in every
\* store and for every user U.
C35_StatisticsBounds ==
    ret # <<>> =>
        LET st == ret[1]
        IN  /\ 0 <= st.songs_rated
            /\ st.songs_rated <= st.total_rateable_songs
            /\ st.rating_percentage.den > 0
            /\ 0 <= st.rating_percentage.num
            /\ st.rating_percentage.num <= 100 * st.rating_percentage.den
            /\ st.songs_rated <= st.ratings_given

\* C35 witness: the user has rated every track of the other user and a track
\* of their own, so ratings_given exceeds songs_rated at 100 percent
C35_Witness ==
    /\ ret # <<>>
    /\ ret[1].total_rateable_songs > 0
    /\ ret[1].songs_rated = ret[1].total_rateable_songs
    /\ ret[1].ratings_given > ret[1].songs_rated
    /\ \E t \in DOMAIN songs :
          songs[t].user = arg.user_id /\ reactions[<<t, arg.user_id>>] # <<>>

\* the stored tracks that the command text "--song <value>" designates, by a
\* link to the track or by its title
SongAsked ==
    {t \in DOMAIN songs :
        split(history) \in {<<(<<"-", "-">> \o KeySong), TrackUrl \o Chars[t]>>, <<(<<"-", "-">> \o KeySong), Chars[t]>>}}

\* C36 as claimed: /stats --song replies with the formatted statistics of
\* every stored track that is asked for, a track with a NULL message_link
\* and a track without reactions included, and does not raise (stated here
\* for the calls during which the Slack API answers).
C36_SongStatsForEveryTrack ==
    (ret # <<>> /\ SongAsked # {}) =>
        (arg.api_up =>
            /\ ~ret[1].raised
            /\ ret[1].replies = <<send_response("SongStats", FALSE)>>)

\* C2: the duplicate check and the insert of reaction_added are separate
\* store transactions without mutual exclusion: a handler that has passed the
\* check inserts its row whatever the table holds by then, so that two
\* interleaved handlers of one (track, user) both insert.
C2_InsertAfterCheck ==
    [][\A p \in Procs :
          procs[p].pc = "insert_reaction" /\ procs'[p].pc # "insert_reaction"
              => LET pair == <<history[procs[p].m], procs[p].user>>
                 IN  reactions'[pair] =
                         Append(reactions[pair], convert_emoji_to_number(procs[p].reaction))]_vars

\* two rows are stored for one (track, user) pair
C2_Witness == \E pair \in Tracks \X Users : Len(reactions[pair]) >= 2

\* C5 as claimed: the timestamp checks of reaction_added and reaction_removed
\* accept the same (stored link, event timestamp) pairs.
C5_SymmetricTimestampCheck == ret # <<>> => ret[1].added = ret[1].removed
====
